---- MODULE Spec2Model ----
(***************************************************************************)
(* f-tailwind: resolution of @export / @use / @import directives           *)
(* (src/transform/forward.ts).  Rules and export blocks are objects of a   *)
(* heap, so that aliasing (one object held by two owners) is visible; the  *)
(* resolver runs as a machine with an explicit call stack, one frame per   *)
(* invocation of resolveDirectives (RD), resolveUsesInExport (RUE),        *)
(* resolveUsesInRules (RUR) and extractExportsFromFile (EEF).              *)
(***************************************************************************)
EXTENDS Integers, Sequences, FiniteSets, TLC

VARIABLES
    heap,          \* Seq of StyleRule / ExportBlock objects; an object's id is its index
    stack,         \* call stack of the resolver, innermost frame last
    sets,          \* Seq of Set<string> objects (the `resolving` and `deps` sets)
    warnings,      \* console.warn calls of the running transform, in order
    files,         \* file system: path -> content
    exportsCache,  \* TransformState.exportsCache, per state: path -> cached ExportBlock[]
    importDeps,    \* TransformState.importDeps, per state: consumer -> set of providers
    phase,         \* "idle" | "running" | "done" | "exhausted"
    ret,           \* value returned by the last extractExportsFromFile call
    unit,          \* the source unit handed to the running forwardTransform
    root,          \* id of the holder of result.rules / result.exports of the running transform
    cur,           \* the TransformState the running transform was called with
    pass           \* 1: resolveDirectives; 2: a second call of resolveUsesInRules on its result

\* the selector matcher and the class collector of forwardTransform (phases 1 and 2)
VARIABLES
    tpl,           \* the template tree: Seq of TemplateNode, a node's id is its index
    sheet,         \* the resolved top-level rules handed to phase 1
    classMap,      \* Map<TemplateNode, string[]> of phase 1, node id -> classes pushed so far
    applied,       \* node id -> the class attribute value phase 2 wrote (a list of classes)
    mpc,           \* position of the matcher: index of the next top-level rule, or a phase name
    nth            \* one evaluation of matchesAnPlusB: its argument, position and result

\* the style parser
VARIABLES
    made,          \* the lines and joints the source text was written from
    styleSrc,      \* the source text of one rule, a sequence of characters
    parsed         \* the rule body the parser returned for it

resolverVars == <<heap, stack, sets, warnings, files, exportsCache, importDeps, phase, ret, unit, root, cur, pass>>
matchVars == <<tpl, sheet, classMap, applied, mpc, nth>>
parseVars == <<made, styleSrc, parsed>>
engineVars == <<matchVars, parseVars>>
vars == <<resolverVars, engineVars>>

(***************************************************************************)
(* Bounds                                                                  *)
(***************************************************************************)
\* objects the heap may hold before the run counts as out of memory
MaxHeap == 40
\* frames the call stack may hold before the run counts as a stack overflow
MaxDepth == 12

(***************************************************************************)
(* Source text, as the parser hands it over (src/parser/types.ts)          *)
(***************************************************************************)
NoFrom == "-"
\* Map.get gives undefined: no object has id 0
NotCached == <<0>>

Cls(c) == [k |-> "class", v |-> c, from |-> NoFrom]
Decl(d) == [k |-> "decl", v |-> d, from |-> NoFrom]
Use(n) == [k |-> "use", v |-> n, from |-> NoFrom]
UseFrom(n, p) == [k |-> "use", v |-> n, from |-> p]

\* a block of source: `sel { body-lines children }`; for an @export, sel is its name
Block(sel, body, children) == [sel |-> sel, body |-> body, children |-> children]
Import(names, from) == [names |-> names, from |-> from]
Unit(path, rules, exports, imports) == [path |-> path, rules |-> rules, exports |-> exports, imports |-> imports]

\* extractContent: classify the lines of a body, each list in source order
BodyClasses(body) ==
    LET IsC(l) == l.k = "class"
        ls == SelectSeq(body, IsC)
    IN [i \in 1..Len(ls) |-> ls[i].v]

BodyDeclarations(body) ==
    LET IsD(l) == l.k = "decl"
        ls == SelectSeq(body, IsD)
    IN [i \in 1..Len(ls) |-> ls[i].v]

BodyUses(body) ==
    LET IsU(l) == l.k = "use"
        ls == SelectSeq(body, IsU)
    IN [i \in 1..Len(ls) |-> [name |-> ls[i].v, from |-> ls[i].from]]

(***************************************************************************)
(* Heap objects                                                            *)
(***************************************************************************)
RECURSIVE AllocRule(_, _), AllocRules(_, _)
\* parseBody / parseRules: build the object tree of one block; [heap, id]
AllocRule(h, src) ==
    LET kids == AllocRules(h, src.children)
        obj == [sel |-> src.sel,
                classes |-> BodyClasses(src.body),
                declarations |-> BodyDeclarations(src.body),
                uses |-> BodyUses(src.body),
                children |-> kids.ids]
    IN [heap |-> Append(kids.heap, obj), id |-> Len(kids.heap) + 1]

AllocRules(h, srcs) ==
    IF srcs = <<>> THEN [heap |-> h, ids |-> <<>>]
    ELSE LET first == AllocRule(h, Head(srcs))
             rest == AllocRules(first.heap, Tail(srcs))
         IN [heap |-> rest.heap, ids |-> <<first.id>> \o rest.ids]

\* a faulty copy, for comparison: the rule itself is handed out instead of a copy
shareRule(h, id) == [heap |-> h, id |-> id]

RECURSIVE cloneRule(_, _), cloneRules(_, _)
\* cloneRule: a deep copy of the rule `id`; [heap, id]
cloneRule(h, id) ==
    LET kids == cloneRules(h, h[id].children)
    IN [heap |-> Append(kids.heap, [h[id] EXCEPT !.children = kids.ids]),
        id |-> Len(kids.heap) + 1]

cloneRules(h, ids) ==
    IF ids = <<>> THEN [heap |-> h, ids |-> <<>>]
    ELSE LET first == cloneRule(h, Head(ids))
             rest == cloneRules(first.heap, Tail(ids))
         IN [heap |-> rest.heap, ids |-> <<first.id>> \o rest.ids]

(***************************************************************************)
(* Registries (Map<string, ExportBlock>, insertion-ordered) and lookups    *)
(***************************************************************************)
RegHas(reg, name) == \E i \in 1..Len(reg) : reg[i].name = name

\* Map.get: the block registered under `name`, 0 for undefined
RegGet(reg, name) ==
    IF RegHas(reg, name)
    THEN reg[CHOOSE i \in 1..Len(reg) : reg[i].name = name].id
    ELSE 0

\* Map.set: a known key keeps its place in the iteration order, its value is replaced
RegSet(reg, name, id) ==
    IF RegHas(reg, name)
    THEN [i \in 1..Len(reg) |-> IF reg[i].name = name THEN [name |-> name, id |-> id] ELSE reg[i]]
    ELSE Append(reg, [name |-> name, id |-> id])

RECURSIVE RegOfExports(_, _, _)
\* registry.set(exp.name, exp) for each export of `ids`, starting from `reg`
RegOfExports(h, ids, reg) ==
    IF ids = <<>> THEN reg
    ELSE RegOfExports(h, Tail(ids), RegSet(reg, h[Head(ids)].sel, Head(ids)))

\* fileExports.find((e) => e.name === name): the first such block, 0 for undefined
FindExport(h, ids, name) ==
    IF \E i \in 1..Len(ids) : h[ids[i]].sel = name
    THEN ids[CHOOSE i \in 1..Len(ids) :
                /\ h[ids[i]].sel = name
                /\ \A j \in 1..(i - 1) : h[ids[j]].sel # name]
    ELSE 0

\* the key under which a @use is tracked in the `resolving` set
CycleKey(use) == IF use.from # NoFrom THEN <<use.from, use.name>> ELSE <<use.name>>

Warn(kind, name) == [kind |-> kind, name |-> name]

(***************************************************************************)
(* Call stack                                                              *)
(***************************************************************************)
Frame(fn, pc, tgt, reg, rs, ds, path) ==
    [fn |-> fn, pc |-> pc, tgt |-> tgt, r |-> 1, u |-> 1, k |-> 1, blk |-> 0,
     reg |-> reg, rs |-> rs, ds |-> ds, path |-> path, res |-> <<>>]

Top == stack[Len(stack)]
Running(fn, pc) == phase = "running" /\ stack # <<>> /\ Top.fn = fn /\ Top.pc = pc
SetTop(f) == [stack EXCEPT ![Len(stack)] = f]
Pop == SubSeq(stack, 1, Len(stack) - 1)

\* the rule or export whose @use list the frame is walking
Holder(f) == IF f.fn = "RUE" THEN f.tgt ELSE heap[f.tgt].children[f.r]
InUseLoop(pc) == phase = "running" /\ stack # <<>> /\ Top.fn \in {"RUE", "RUR"} /\ Top.pc = pc
CurrentUse == heap[Holder(Top)].uses[Top.u]
HasUse == Top.u <= Len(heap[Holder(Top)].uses)

(***************************************************************************)
(* The @use loop shared by resolveUsesInExport and resolveUsesInRules      *)
(***************************************************************************)
\* faulty variants of the three updates below, for comparison: the used block's lists
\* put in front of the holder's own; `uses` left as it is; the whole rule reset
InlinedFirst(obj, block) ==
    [obj EXCEPT !.classes = block.classes \o @,
                !.declarations = block.declarations \o @]
KeepUses(obj) == obj
Cleared(obj) == [obj EXCEPT !.uses = <<>>, !.classes = <<>>, !.declarations = <<>>]

\* rule.classes.push(...block.classes); rule.declarations.push(...block.declarations)
Inlined(obj, block) ==
    [obj EXCEPT !.classes = @ \o block.classes,
                !.declarations = @ \o block.declarations]

\* rule.uses = []
Drained(obj) == [obj EXCEPT !.uses = <<>>]

\* the frame moves on to the next @use of its holder
NextUse(f) == [f EXCEPT !.pc = "use", !.u = @ + 1, !.blk = 0, !.k = 1]

\* a faulty skip, for comparison: `break` instead of `continue`
AbandonUses(f) == [NextUse(f) EXCEPT !.u = Len(heap[Holder(f)].uses) + 1]

\* if (!block) continue;  -- the failing directive is skipped, the loop goes on
SkipUse(f) == NextUse(f)

\* `block` found: mark the key, append classes and declarations, start copying children
InlineBlock(block) ==
    LET h == Holder(Top)
    IN /\ sets' = [sets EXCEPT ![Top.rs] = @ \cup {CycleKey(CurrentUse)}]
       /\ heap' = [heap EXCEPT ![h] = Inlined(heap[h], heap[block])]
       /\ stack' = SetTop([Top EXCEPT !.pc = "clone", !.blk = block, !.k = 1])
       /\ UNCHANGED warnings

\* if (resolving.has(cycleKey)) { warn; continue }
Circular == CycleKey(CurrentUse) \in sets[Top.rs]

SkipCircular ==
    /\ warnings' = Append(warnings, Warn("circular", CurrentUse.name))
    /\ stack' = SetTop(SkipUse(Top))
    /\ UNCHANGED <<heap, sets, phase>>

\* @use name: block = registry.get(name); undefined is warned about and skipped
UseLocal ==
    /\ InUseLoop("use") /\ HasUse
    /\ CurrentUse.from = NoFrom
    /\ IF Circular THEN SkipCircular
       ELSE LET block == RegGet(Top.reg, CurrentUse.name)
            IN /\ IF block = 0
                  THEN /\ warnings' = Append(warnings, Warn("undefined", CurrentUse.name))
                       /\ stack' = SetTop(SkipUse(Top))
                       /\ UNCHANGED <<heap, sets>>
                  ELSE InlineBlock(block)
               /\ UNCHANGED phase
    /\ UNCHANGED <<files, exportsCache, importDeps, ret, unit, root, cur, pass>>

\* @use name from 'path': deps.add(absPath); extractExportsFromFile(absPath, state)
UseFromFile ==
    /\ InUseLoop("use") /\ HasUse
    /\ CurrentUse.from # NoFrom
    /\ IF Circular THEN SkipCircular
       ELSE IF Len(stack) >= MaxDepth
       THEN /\ phase' = "exhausted"
            /\ UNCHANGED <<heap, stack, sets, warnings>>
       ELSE /\ sets' = [sets EXCEPT ![Top.ds] = @ \cup {CurrentUse.from}]
            /\ stack' = Append(SetTop([Top EXCEPT !.pc = "loaded"]),
                               Frame("EEF", "enter", 0, <<>>, 0, 0, CurrentUse.from))
            /\ UNCHANGED <<heap, warnings, phase>>
    /\ UNCHANGED <<files, exportsCache, importDeps, ret, unit, root, cur, pass>>

\* block = fileExports.find(...) on the exports the load returned
UseLoaded ==
    /\ InUseLoop("loaded")
    /\ LET block == FindExport(heap, ret, CurrentUse.name)
       IN IF block = 0
          THEN /\ warnings' = Append(warnings, Warn("notfound", CurrentUse.name))
               /\ stack' = SetTop(SkipUse(Top))
               /\ UNCHANGED <<heap, sets>>
          ELSE InlineBlock(block)
    /\ UNCHANGED <<files, exportsCache, importDeps, phase, ret, unit, root, cur, pass>>

\* for (const child of block.children) holder.children.push(cloneRule(child))
\* one iteration; block.children is read live, as the for-of does
CloneChild ==
    /\ InUseLoop("clone")
    /\ Top.k <= Len(heap[Top.blk].children)
    /\ LET h == Holder(Top)
           c == cloneRule(heap, heap[Top.blk].children[Top.k])
       IN IF Len(c.heap) > MaxHeap
          THEN /\ phase' = "exhausted"
               /\ UNCHANGED <<heap, stack>>
          ELSE /\ heap' = [c.heap EXCEPT ![h].children = Append(@, c.id)]
               /\ stack' = SetTop([Top EXCEPT !.k = @ + 1])
               /\ UNCHANGED phase
    /\ UNCHANGED <<sets, warnings, files, exportsCache, importDeps, ret, unit, root, cur, pass>>

\* the children are copied: resolving.delete(cycleKey), next @use
CloneDone ==
    /\ InUseLoop("clone")
    /\ Top.k > Len(heap[Top.blk].children)
    /\ sets' = [sets EXCEPT ![Top.rs] = @ \ {CycleKey(CurrentUse)}]
    /\ stack' = SetTop(NextUse(Top))
    /\ UNCHANGED <<heap, warnings, files, exportsCache, importDeps, phase, ret, unit, root, cur, pass>>

\* after the loop: holder.uses = []; resolveUsesInRules(holder.children, ...)
DrainAndRecurse ==
    /\ InUseLoop("use") /\ ~HasUse
    /\ LET h == Holder(Top)
           back == IF Top.fn = "RUE" THEN [Top EXCEPT !.pc = "return"]
                   ELSE [Top EXCEPT !.pc = "rule", !.r = @ + 1, !.u = 1]
       IN IF Len(stack) >= MaxDepth
          THEN /\ phase' = "exhausted"
               /\ UNCHANGED <<heap, stack>>
          ELSE /\ heap' = [heap EXCEPT ![h] = Drained(heap[h])]
               /\ stack' = Append(SetTop(back),
                                  Frame("RUR", "rule", h, Top.reg, Top.rs, Top.ds, NoFrom))
               /\ UNCHANGED phase
    /\ UNCHANGED <<sets, warnings, files, exportsCache, importDeps, ret, unit, root, cur, pass>>

\* resolveUsesInRules: for (const rule of rules): enter the next rule, or return
NextRule ==
    /\ Running("RUR", "rule")
    /\ stack' = IF Top.r <= Len(heap[Top.tgt].children)
                THEN SetTop([Top EXCEPT !.pc = "use", !.u = 1])
                ELSE Pop
    /\ UNCHANGED <<heap, sets, warnings, files, exportsCache, importDeps, phase, ret, unit, root, cur, pass>>

\* resolveUsesInExport returns once its children are resolved
ReturnFromExport ==
    /\ Running("RUE", "return")
    /\ stack' = Pop
    /\ UNCHANGED <<heap, sets, warnings, files, exportsCache, importDeps, phase, ret, unit, root, cur, pass>>

(***************************************************************************)
(* extractExportsFromFile                                                  *)
(***************************************************************************)
StateIds == {"s1", "s2"}
Paths == {"A", "B", "L", "N", "T"}

\* a faulty lookup, for comparison: the cache is never hit
Uncached(path) == NotCached

File(kind, exports) == [kind |-> kind, exports |-> exports]
Cached(path) == exportsCache[cur][path]

\* const cached = state.exportsCache.get(abs); if (cached) return cached;
LoadCached ==
    /\ Running("EEF", "enter")
    /\ Cached(Top.path) # NotCached
    /\ ret' = Cached(Top.path)
    /\ stack' = Pop
    /\ UNCHANGED <<heap, sets, warnings, files, exportsCache, importDeps, phase, unit, root, cur, pass>>

\* readFileSync throws: warn, return [] and cache nothing
LoadUnreadable ==
    /\ Running("EEF", "enter")
    /\ Cached(Top.path) = NotCached
    /\ files[Top.path].kind = "missing"
    /\ warnings' = Append(warnings, Warn("unreadable", Top.path))
    /\ ret' = <<>>
    /\ stack' = Pop
    /\ UNCHANGED <<heap, sets, files, exportsCache, importDeps, phase, unit, root, cur, pass>>

\* the file holds no <style lang="f-tailwind">: cache [] and return it
LoadNoStyleBlock ==
    /\ Running("EEF", "enter")
    /\ Cached(Top.path) = NotCached
    /\ files[Top.path].kind = "plain"
    /\ exportsCache' = [exportsCache EXCEPT ![cur][Top.path] = <<>>]
    /\ ret' = <<>>
    /\ stack' = Pop
    /\ UNCHANGED <<heap, sets, warnings, files, importDeps, phase, unit, root, cur, pass>>

\* parseStyleBlock(ftStyle.content, abs), then the local registry of its exports
LoadParse ==
    /\ Running("EEF", "enter")
    /\ Cached(Top.path) = NotCached
    /\ files[Top.path].kind = "sfc"
    /\ LET a == AllocRules(heap, files[Top.path].exports)
       IN IF Len(a.heap) > MaxHeap
          THEN /\ phase' = "exhausted"
               /\ UNCHANGED <<heap, stack>>
          ELSE /\ heap' = a.heap
               /\ stack' = SetTop([Top EXCEPT !.pc = "resolve", !.r = 1, !.res = a.ids,
                                              !.reg = RegOfExports(a.heap, a.ids, <<>>)])
               /\ UNCHANGED phase
    /\ UNCHANGED <<sets, warnings, files, exportsCache, importDeps, ret, unit, root, cur, pass>>

\* for (const [, exp] of localRegistry) resolveUsesInExport(exp, localRegistry, dir, new Set(), new Set(), state)
LoadResolveNext ==
    /\ Running("EEF", "resolve")
    /\ Top.r <= Len(Top.reg)
    /\ IF Len(stack) >= MaxDepth
       THEN /\ phase' = "exhausted"
            /\ UNCHANGED <<stack, sets>>
       ELSE /\ sets' = sets \o <<{}, {}>>
            /\ stack' = Append(SetTop([Top EXCEPT !.r = @ + 1]),
                               Frame("RUE", "use", Top.reg[Top.r].id, Top.reg,
                                     Len(sets) + 1, Len(sets) + 2, NoFrom))
            /\ UNCHANGED phase
    /\ UNCHANGED <<heap, warnings, files, exportsCache, importDeps, ret, unit, root, cur, pass>>

\* state.exportsCache.set(abs, result.exports); return result.exports
LoadStore ==
    /\ Running("EEF", "resolve")
    /\ Top.r > Len(Top.reg)
    /\ exportsCache' = [exportsCache EXCEPT ![cur][Top.path] = Top.res]
    /\ ret' = Top.res
    /\ stack' = Pop
    /\ UNCHANGED <<heap, sets, warnings, files, importDeps, phase, unit, root, cur, pass>>

(***************************************************************************)
(* resolveDirectives                                                       *)
(***************************************************************************)
RECURSIVE DuplicateWarnings(_, _, _)
\* the warnings of the loop over result.exports: one per name already registered
DuplicateWarnings(h, ids, seen) ==
    IF ids = <<>> THEN <<>>
    ELSE (IF h[Head(ids)].sel \in seen THEN <<Warn("duplicate", h[Head(ids)].sel)>> ELSE <<>>)
         \o DuplicateWarnings(h, Tail(ids), seen \cup {h[Head(ids)].sel})

RECURSIVE ImportNames(_, _, _, _)
\* for (const name of imp.names): registry.set(name, exp) when the file exports it
ImportNames(h, fileExports, names, reg) ==
    IF names = <<>> THEN reg
    ELSE LET exp == FindExport(h, fileExports, Head(names))
         IN ImportNames(h, fileExports, Tail(names),
                        IF exp # 0 THEN RegSet(reg, Head(names), exp) ELSE reg)

RECURSIVE ImportWarnings(_, _, _)
\* ... and a warning for each name the file does not export
ImportWarnings(h, fileExports, names) ==
    IF names = <<>> THEN <<>>
    ELSE (IF FindExport(h, fileExports, Head(names)) = 0
          THEN <<Warn("import-notfound", Head(names))>> ELSE <<>>)
         \o ImportWarnings(h, fileExports, Tail(names))

\* entry of resolveDirectives(result, filePath, state): registry of the local exports, deps
EnterResolveDirectives(h, rt, ws) ==
    /\ warnings' = ws \o DuplicateWarnings(h, rt.exports, {})
    /\ sets' = Append(sets, {})
    /\ stack' = <<Frame("RD", "imports", rt.rules, RegOfExports(h, rt.exports, <<>>),
                        0, Len(sets) + 1, NoFrom)>>

\* forwardTransform(code, id, state) up to the call of resolveDirectives
forwardTransform(u, s) ==
    /\ phase = "idle"
    /\ UNCHANGED engineVars
    /\ LET rs == AllocRules(heap, u.rules)
           holder == [sel |-> "<rules>", classes |-> <<>>, declarations |-> <<>>,
                      uses |-> <<>>, children |-> rs.ids]
           h1 == Append(rs.heap, holder)
           es == AllocRules(h1, u.exports)
           rt == [rules |-> Len(h1), exports |-> es.ids]
       IN /\ heap' = es.heap
          /\ root' = rt
          /\ EnterResolveDirectives(es.heap, rt, <<>>)
    /\ unit' = u
    /\ cur' = s
    /\ phase' = "running"
    /\ pass' = 1
    /\ UNCHANGED <<files, exportsCache, importDeps, ret>>

\* for (const imp of result.imports): deps.add(absPath); extractExportsFromFile(absPath, state)
ImportNext ==
    /\ Running("RD", "imports")
    /\ Top.r <= Len(unit.imports)
    /\ sets' = [sets EXCEPT ![Top.ds] = @ \cup {unit.imports[Top.r].from}]
    /\ stack' = Append(SetTop([Top EXCEPT !.pc = "imported"]),
                       Frame("EEF", "enter", 0, <<>>, 0, 0, unit.imports[Top.r].from))
    /\ UNCHANGED <<heap, warnings, files, exportsCache, importDeps, phase, ret, unit, root, cur, pass>>

\* the names of the import enter the registry (last wins), missing names are warned about
ImportLoaded ==
    /\ Running("RD", "imported")
    /\ LET imp == unit.imports[Top.r]
       IN /\ warnings' = warnings \o ImportWarnings(heap, ret, imp.names)
          /\ stack' = SetTop([Top EXCEPT !.pc = "imports", !.r = @ + 1,
                                         !.reg = ImportNames(heap, ret, imp.names, @)])
    /\ UNCHANGED <<heap, sets, files, exportsCache, importDeps, phase, ret, unit, root, cur, pass>>

\* the imports are done: start the loop over the registry
ImportsDone ==
    /\ Running("RD", "imports")
    /\ Top.r > Len(unit.imports)
    /\ stack' = SetTop([Top EXCEPT !.pc = "exports", !.r = 1])
    /\ UNCHANGED <<heap, sets, warnings, files, exportsCache, importDeps, phase, ret, unit, root, cur, pass>>

\* for (const [, exp] of registry) resolveUsesInExport(exp, registry, dir, new Set(), deps, state)
resolveUsesInExport ==
    /\ Running("RD", "exports")
    /\ Top.r <= Len(Top.reg)
    /\ sets' = Append(sets, {})
    /\ stack' = Append(SetTop([Top EXCEPT !.r = @ + 1]),
                       Frame("RUE", "use", Top.reg[Top.r].id, Top.reg, Len(sets) + 1, Top.ds, NoFrom))
    /\ UNCHANGED <<heap, warnings, files, exportsCache, importDeps, phase, ret, unit, root, cur, pass>>

\* resolveUsesInRules(result.rules, registry, dir, new Set(), deps, state)
resolveUsesInRules ==
    /\ Running("RD", "exports")
    /\ Top.r > Len(Top.reg)
    /\ sets' = Append(sets, {})
    /\ stack' = Append(SetTop([Top EXCEPT !.pc = "store"]),
                       Frame("RUR", "rule", Top.tgt, Top.reg, Len(sets) + 1, Top.ds, NoFrom))
    /\ UNCHANGED <<heap, warnings, files, exportsCache, importDeps, phase, ret, unit, root, cur, pass>>

\* a faulty store, for comparison: the dependency set goes to the module's default state
StoreDepsInDefault ==
    /\ Running("RD", "store")
    /\ importDeps' = [importDeps EXCEPT !["s1"][unit.path] = sets[Top.ds]]
    /\ stack' = <<>>
    /\ phase' = "done"
    /\ UNCHANGED <<heap, sets, warnings, files, exportsCache, ret, unit, root, cur, pass>>

\* state.importDeps.set(absFilePath, deps) or .delete(absFilePath); return result.rules
StoreDeps ==
    /\ Running("RD", "store")
    /\ importDeps' = [importDeps EXCEPT ![cur][unit.path] = sets[Top.ds]]
    /\ stack' = <<>>
    /\ phase' = "done"
    /\ UNCHANGED <<heap, sets, warnings, files, exportsCache, ret, unit, root, cur, pass>>

(***************************************************************************)
(* Top-level calls                                                         *)
(***************************************************************************)
\* the files that are transformed
ConsumerPath == "/c.vue"
OtherConsumerPath == "/d.vue"
ConsumerPaths == {ConsumerPath, OtherConsumerPath}

\* resolveDirectives called once more on the ParseResult it has resolved
Reresolve ==
    /\ phase = "done" /\ pass = 1
    /\ UNCHANGED engineVars
    /\ EnterResolveDirectives(heap, root, warnings)
    /\ phase' = "running"
    /\ pass' = 2
    /\ UNCHANGED <<heap, files, exportsCache, importDeps, ret, unit, root, cur>>

\* forwardTransform returns null before it parses anything: the code holds no
\* <style lang="f-tailwind"> block, or no template
forwardTransformNull(p, s) ==
    /\ phase = "idle"
    /\ UNCHANGED engineVars
    /\ unit' = Unit(p, <<>>, <<>>, <<>>)
    /\ cur' = s
    /\ phase' = "done"
    /\ warnings' = <<>>
    /\ UNCHANGED <<heap, stack, sets, files, exportsCache, importDeps, ret, root, pass>>

\* getImportDependents(providerPath, state): the consumers whose dependency set holds it
getImportDependents(providerPath, s) ==
    {consumer \in DOMAIN importDeps[s] : providerPath \in importDeps[s][consumer]}

\* clearExportsCache(filePath, state) / clearExportsCache(undefined, state)
clearExportsCache(p, s) ==
    /\ phase = "idle"
    /\ UNCHANGED engineVars
    /\ exportsCache' = [exportsCache EXCEPT ![s] =
                           IF p \in Paths THEN [@ EXCEPT ![p] = NotCached]
                           ELSE [q \in Paths |-> NotCached]]
    /\ UNCHANGED <<heap, stack, sets, warnings, files, importDeps, phase, ret, unit, root, cur, pass>>

\* handleHotUpdate({ file }) of the plugin whose state is s: the file's cache entry is
\* dropped and the dependents are looked up to be invalidated; the handler has returned,
\* no transform is under way (root is empty) and sets holds `dependents`
handleHotUpdate(file, s) ==
    /\ phase = "idle"
    /\ UNCHANGED engineVars
    /\ exportsCache' = [exportsCache EXCEPT ![s][file] = NotCached]
    /\ sets' = <<getImportDependents(file, s)>>
    /\ unit' = Unit(file, <<>>, <<>>, <<>>)
    /\ cur' = s
    /\ phase' = "done"
    /\ UNCHANGED <<heap, stack, warnings, files, importDeps, ret, root, pass>>

\* the file at path p is rewritten (outside the program)
WriteFile(p, content) ==
    /\ phase = "idle"
    /\ UNCHANGED engineVars
    /\ files[p] # content
    /\ files' = [files EXCEPT ![p] = content]
    /\ UNCHANGED <<heap, stack, sets, warnings, exportsCache, importDeps, phase, ret, unit, root, cur, pass>>

RECURSIVE Closure(_, _, _)
\* the objects reachable from the set S through `children`, in at most n steps
Closure(h, S, n) ==
    IF n = 0 THEN S
    ELSE Closure(h, S \cup UNION {{h[i].children[k] : k \in 1..Len(h[i].children)} : i \in S}, n - 1)

\* the objects some exportsCache still holds once the transform has returned
Live ==
    Closure(heap,
            UNION {IF exportsCache[s][p] = NotCached THEN {}
                   ELSE {exportsCache[s][p][i] : i \in 1..Len(exportsCache[s][p])}
                   : s \in StateIds, p \in Paths},
            Len(heap))

Rank(S, id) == Cardinality({j \in S : j <= id})
Renumbered(S, ids) == [k \in 1..Len(ids) |-> Rank(S, ids[k])]

\* forwardTransform returns: its arguments, ParseResult, sets and frames are garbage; the
\* objects that stay are those the caches hold (renumbered, in allocation order)
Return ==
    /\ phase = "done"
    /\ UNCHANGED engineVars
    /\ heap' = [n \in 1..Cardinality(Live) |->
                   LET id == CHOOSE i \in Live : Rank(Live, i) = n
                   IN [heap[id] EXCEPT !.children = Renumbered(Live, @)]]
    /\ exportsCache' = [s \in StateIds |-> [p \in Paths |->
                           IF exportsCache[s][p] = NotCached THEN NotCached
                           ELSE Renumbered(Live, exportsCache[s][p])]]
    /\ stack' = <<>>
    /\ sets' = <<>>
    /\ ret' = <<>>
    /\ root' = [rules |-> 0, exports |-> <<>>]
    /\ phase' = "idle"
    /\ pass' = 1
    /\ warnings' = <<>>
    /\ unit' = Unit(ConsumerPath, <<>>, <<>>, <<>>)
    /\ cur' = "s1"
    /\ UNCHANGED <<files, importDeps>>

(***************************************************************************)
(* Template tree (src/types.ts TemplateNode) and selector ASTs              *)
(* (postcss-selector-parser)                                               *)
(***************************************************************************)
\* TemplateNode.conditional of an element outside every v-if / v-else chain
NoCond == <<>>
Conditional(chainId, branchIdx) == <<chainId, branchIdx>>
\* a TemplateNode; `parent` is 0 for a root, `classes` are the static classes
TemplateNode(tag, classes, parent, children, conditional) ==
    [tag |-> tag, classes |-> classes, parent |-> parent, children |-> children,
     conditional |-> conditional]

\* the roots of the template, in document order (the templateNodes of forwardTransform)
templateNodes == SelectSeq([i \in 1..Len(tpl) |-> i], LAMBDA i : tpl[i].parent = 0)

\* nodes of a selector: `nodes` holds the inner selectors of a functional pseudo-class,
\* `arg` the text between the parentheses of an :nth-* pseudo-class, one character each
SelNode(type, value, nodes, arg) == [type |-> type, value |-> value, nodes |-> nodes, arg |-> arg]
SelTag(v) == SelNode("tag", v, <<>>, <<>>)
SelClass(v) == SelNode("class", v, <<>>, <<>>)
SelUniversal == SelNode("universal", "*", <<>>, <<>>)
SelNesting == SelNode("nesting", "&", <<>>, <<>>)
Combinator(v) == SelNode("combinator", v, <<>>, <<>>)
Pseudo(v) == SelNode("pseudo", v, <<>>, <<>>)
PseudoFn(v, selectors) == SelNode("pseudo", v, selectors, <<>>)
PseudoNth(v, text) == SelNode("pseudo", v, <<>>, text)

\* a StyleRule as phase 1 sees it: resolved, with its selector parsed
MatchRule(selector, classes, children) ==
    [selector |-> selector, classes |-> classes, children |-> children]

\* Array.prototype.indexOf, 1-based; 0 when absent
indexOf(seq, x) ==
    IF \E i \in 1..Len(seq) : seq[i] = x
    THEN CHOOSE i \in 1..Len(seq) : seq[i] = x /\ \A j \in 1..(i - 1) : seq[j] # x
    ELSE 0
includes(seq, x) == indexOf(seq, x) # 0

\* next.push(...list) over the lists of a list
RECURSIVE Flat(_)
Flat(lists) == IF lists = <<>> THEN <<>> ELSE Head(lists) \o Flat(Tail(lists))

\* pushes guarded by a `seen` set: the first occurrence of each element is kept
RECURSIVE Seen(_, _)
Seen(seq, acc) ==
    IF seq = <<>> THEN acc
    ELSE Seen(Tail(seq), IF includes(acc, Head(seq)) THEN acc ELSE Append(acc, Head(seq)))

(***************************************************************************)
(* matchesAnPlusB (the argument is a string, one character per element)    *)
(***************************************************************************)
Digits == {"0", "1", "2", "3", "4", "5", "6", "7", "8", "9"}
DigitValue(c) == CHOOSE d \in 0..9 : <<"0", "1", "2", "3", "4", "5", "6", "7", "8", "9">>[d + 1] = c

\* String.prototype.toLowerCase on the letters an argument is written with
toLowerCase(s) ==
    [i \in 1..Len(s) |->
        CASE s[i] = "N" -> "n" [] s[i] = "O" -> "o" [] s[i] = "D" -> "d"
          [] s[i] = "E" -> "e" [] s[i] = "V" -> "v" [] OTHER -> s[i]]

\* String.prototype.trim
WhiteSpace == {" ", "\t", "\n"}
RECURSIVE trimStart(_)
trimStart(s) == IF s # <<>> /\ Head(s) \in WhiteSpace THEN trimStart(Tail(s)) ELSE s
RECURSIVE trimEnd(_)
trimEnd(s) == IF s # <<>> /\ s[Len(s)] \in WhiteSpace THEN trimEnd(SubSeq(s, 1, Len(s) - 1)) ELSE s
trim(s) == trimEnd(trimStart(s))

\* s.replace(/\s/g, '')
removeSpaces(s) == SelectSeq(s, LAMBDA c : c \notin WhiteSpace)

AllDigits(s) == \A i \in 1..Len(s) : s[i] \in Digits
RECURSIVE DigitsValue(_)
DigitsValue(s) == IF s = <<>> THEN 0 ELSE 10 * DigitsValue(SubSeq(s, 1, Len(s) - 1)) + DigitValue(s[Len(s)])

\* /^[+-]?\d+$/ and parseInt(s, 10) of a string of that form
IsSignedNumber(s) ==
    /\ s # <<>>
    /\ LET d == IF Head(s) \in {"+", "-"} THEN Tail(s) ELSE s IN d # <<>> /\ AllDigits(d)
parseInt(s) ==
    IF Head(s) = "-" THEN 0 - DigitsValue(Tail(s))
    ELSE IF Head(s) = "+" THEN DigitsValue(Tail(s))
    ELSE DigitsValue(s)

\* /^-?\d+$/
IsPureNumber(s) == IsSignedNumber(s) /\ Head(s) # "+"

\* /^(-?\d*)n\s*([+-]\s*\d+)?$/ : the groups, or matched = FALSE
MatchAnB(s) ==
    LET n == indexOf(s, "n")
        g1 == SubSeq(s, 1, n - 1)
        rest == trimStart(SubSeq(s, n + 1, Len(s)))
        g1ok == LET d == IF g1 # <<>> /\ Head(g1) = "-" THEN Tail(g1) ELSE g1 IN AllDigits(d)
        g2ok == \/ rest = <<>>
                \/ /\ Head(rest) \in {"+", "-"}
                   /\ LET d == trimStart(Tail(rest)) IN d # <<>> /\ AllDigits(d)
    IN IF n # 0 /\ g1ok /\ g2ok
       THEN [matched |-> TRUE, g1 |-> g1, g2 |-> rest]
       ELSE [matched |-> FALSE, g1 |-> <<>>, g2 |-> <<>>]

\* the % operator of JavaScript: the remainder has the sign of the dividend
JsRem(x, y) ==
    LET ax == IF x < 0 THEN 0 - x ELSE x
        ay == IF y < 0 THEN 0 - y ELSE y
    IN IF x < 0 THEN 0 - (ax % ay) ELSE ax % ay

\* a matcher that accepts every position
AnyPosition(expr, pos) == TRUE

matchesAnPlusB(expr, pos) ==
    LET s == toLowerCase(trim(expr))
        match == MatchAnB(s)
        a == IF match.g1 = <<>> THEN 1
             ELSE IF match.g1 = <<"-">> THEN 0 - 1
             ELSE parseInt(match.g1)
        b == IF match.g2 # <<>> THEN parseInt(removeSpaces(match.g2)) ELSE 0
        remainder == pos - b
    IN IF s = <<"o", "d", "d">> THEN JsRem(pos, 2) = 1
       ELSE IF s = <<"e", "v", "e", "n">> THEN JsRem(pos, 2) = 0
       ELSE IF IsPureNumber(s) THEN pos = parseInt(s)
       ELSE IF ~match.matched THEN TRUE
       ELSE IF a = 0 THEN pos = b
       ELSE IF remainder = 0 THEN TRUE
       ELSE IF a > 0 THEN remainder > 0 /\ JsRem(remainder, a) = 0
       ELSE remainder <= 0 /\ JsRem(remainder, a) = 0

(***************************************************************************)
(* Selector matching                                                       *)
(***************************************************************************)
RUNTIME_PSEUDOS == {":hover", ":focus", ":active", ":visited", ":checked", ":disabled"}

\* el.parent.children, or nothing for a root
childrenOfParent(el) == IF tpl[el].parent = 0 THEN <<>> ELSE tpl[tpl[el].parent].children

getRuntimeSiblings(el) ==
    IF tpl[el].parent = 0 THEN <<el>>
    ELSE SelectSeq(tpl[tpl[el].parent].children,
                   LAMBDA sib :
                       IF tpl[el].conditional = NoCond \/ tpl[sib].conditional = NoCond THEN TRUE
                       ELSE \/ tpl[el].conditional[1] # tpl[sib].conditional[1]
                            \/ tpl[el].conditional[2] = tpl[sib].conditional[2])

\* two elements of one chain are never alternatives
NeverAlternative(a, b) == FALSE

isConditionalAlternative(a, b) ==
    IF tpl[a].conditional = NoCond \/ tpl[b].conditional = NoCond THEN FALSE
    ELSE /\ tpl[a].conditional[1] = tpl[b].conditional[1]
         /\ tpl[a].conditional[2] # tpl[b].conditional[2]

extractPseudoArg(pseudo) == trim(pseudo.arg)

matchStructuralPseudo(el, pseudo) ==
    LET value == pseudo.value
        siblings == getRuntimeSiblings(el)
        index == indexOf(siblings, el)
        sameTag == SelectSeq(siblings, LAMBDA s : tpl[s].tag = tpl[el].tag)
        arg == extractPseudoArg(pseudo)
        pool == IF value \in {":nth-of-type", ":nth-last-of-type"} THEN sameTag ELSE siblings
        pos == IF value \in {":nth-last-child", ":nth-last-of-type"}
               THEN Len(pool) - (indexOf(pool, el) - 1)
               ELSE indexOf(pool, el)
    IN CASE value \in RUNTIME_PSEUDOS -> TRUE
         [] value = ":first-child" -> index = 1
         [] value = ":last-child" -> index = Len(siblings)
         [] value = ":only-child" -> Len(siblings) = 1
         [] value = ":first-of-type" -> Head(sameTag) = el
         [] value = ":last-of-type" -> sameTag[Len(sameTag)] = el
         [] value = ":only-of-type" -> Len(sameTag) = 1
         [] value = ":root" -> tpl[el].parent = 0
         [] value = ":empty" -> tpl[el].children = <<>>
         [] value \in {":nth-child", ":nth-last-child", ":nth-of-type", ":nth-last-of-type"} ->
                IF arg = <<>> THEN TRUE ELSE matchesAnPlusB(arg, pos)
         [] OTHER -> TRUE

\* [combinator, compound-selector-parts]
CombinatorSegment(combinator, parts) == [combinator |-> combinator, parts |-> parts]

\* the state of the loop of splitIntoCombinatorSegments after the nodes given
RECURSIVE splitLoop(_, _, _, _)
splitLoop(nodes, segments, currentCombinator, currentParts) ==
    IF nodes = <<>>
    THEN IF currentParts # <<>>
         THEN Append(segments, CombinatorSegment(currentCombinator, currentParts))
         ELSE segments
    ELSE LET node == Head(nodes) IN
         IF node.type = "combinator"
         THEN splitLoop(Tail(nodes),
                        IF currentParts # <<>>
                        THEN Append(segments, CombinatorSegment(currentCombinator, currentParts))
                        ELSE segments,
                        IF node.value = " " THEN "" ELSE node.value,
                        <<>>)
         ELSE IF node.type = "nesting"
         THEN splitLoop(Tail(nodes), segments, currentCombinator, currentParts)
         ELSE splitLoop(Tail(nodes), segments, currentCombinator, Append(currentParts, node))

splitIntoCombinatorSegments(nodes) == splitLoop(nodes, <<>>, " ", <<>>)

RECURSIVE matchesCompound(_, _)
RECURSIVE matchesHasSelector(_, _)
RECURSIVE elementMatchesComplexSelector(_, _)

RECURSIVE findDescendantsMatching(_, _)
findDescendantsMatching(nodes, parts) ==
    IF nodes = <<>> THEN <<>>
    ELSE (IF matchesCompound(Head(nodes), parts) THEN <<Head(nodes)>> ELSE <<>>)
         \o findDescendantsMatching(tpl[Head(nodes)].children, parts)
         \o findDescendantsMatching(Tail(nodes), parts)

\* the sibling immediately after each anchor found in `siblings`
matchAdjacentSibling(siblings, anchors, parts) ==
    Flat([k \in 1..Len(anchors) |->
            LET idx == indexOf(siblings, anchors[k]) IN
            IF idx # 0 /\ idx + 1 <= Len(siblings) /\ matchesCompound(siblings[idx + 1], parts)
            THEN <<siblings[idx + 1]>> ELSE <<>>])

matchGeneralSibling(siblings, anchors, parts) ==
    Seen(Flat([k \in 1..Len(anchors) |->
                 LET idx == indexOf(siblings, anchors[k]) IN
                 IF idx = 0 THEN <<>>
                 ELSE SelectSeq(SubSeq(siblings, idx + 1, Len(siblings)),
                                LAMBDA s : matchesCompound(s, parts))]),
         <<>>)

\* the siblings behind the anchor that are no conditional alternatives of it
FollowingAnchor(anchor) ==
    LET siblings == childrenOfParent(anchor)
        idx == indexOf(siblings, anchor)
    IN IF idx = 0 THEN <<>>
       ELSE SelectSeq(SubSeq(siblings, idx + 1, Len(siblings)),
                      LAMBDA s : ~isConditionalAlternative(anchor, s))

matchAdjacentSiblingViaParent(anchors, parts) ==
    Seen(Flat([k \in 1..Len(anchors) |->
                 LET following == FollowingAnchor(anchors[k]) IN
                 IF following # <<>> /\ matchesCompound(Head(following), parts)
                 THEN <<Head(following)>> ELSE <<>>]),
         <<>>)

matchGeneralSiblingViaParent(anchors, parts) ==
    Seen(Flat([k \in 1..Len(anchors) |->
                 SelectSeq(FollowingAnchor(anchors[k]), LAMBDA s : matchesCompound(s, parts))]),
         <<>>)

\* one chained segment applied to the elements matched so far (the loop body shared by
\* matchSelectorPart and matchesHasSelector)
chainSegment(current, seg) ==
    IF seg.combinator = ">"
    THEN Flat([k \in 1..Len(current) |->
                 SelectSeq(tpl[current[k]].children, LAMBDA ch : matchesCompound(ch, seg.parts))])
    ELSE IF seg.combinator = "+" THEN matchAdjacentSiblingViaParent(current, seg.parts)
    ELSE IF seg.combinator = "~" THEN matchGeneralSiblingViaParent(current, seg.parts)
    ELSE Flat([k \in 1..Len(current) |->
                 findDescendantsMatching(tpl[current[k]].children, seg.parts)])

RECURSIVE chainSegments(_, _, _)
chainSegments(current, segments, i) ==
    IF i > Len(segments) THEN current
    ELSE chainSegments(chainSegment(current, segments[i]), segments, i + 1)

\* every candidate is accepted without a look at its ancestors and siblings
BackwardsAccept(el, segments, segIdx) == TRUE

RECURSIVE matchBackwards(_, _, _)
\* the `while (ancestor)` loop of the descendant case
RECURSIVE walkAncestors(_, _, _)
walkAncestors(ancestor, segments, segIdx) ==
    IF ancestor = 0 THEN FALSE
    ELSE IF matchesCompound(ancestor, segments[segIdx - 1].parts)
            /\ matchBackwards(ancestor, segments, segIdx - 1)
    THEN TRUE
    ELSE walkAncestors(tpl[ancestor].parent, segments, segIdx)

matchBackwards(el, segments, segIdx) ==
    IF segIdx = 1 THEN TRUE
    ELSE LET combinator == segments[segIdx].combinator
             prevParts == segments[segIdx - 1].parts
             siblings == getRuntimeSiblings(el)
             idx == indexOf(siblings, el)
         IN CASE combinator = ">" ->
                   IF tpl[el].parent = 0 \/ ~matchesCompound(tpl[el].parent, prevParts) THEN FALSE
                   ELSE matchBackwards(tpl[el].parent, segments, segIdx - 1)
              [] combinator \in {" ", ""} ->
                   walkAncestors(tpl[el].parent, segments, segIdx)
              [] combinator = "+" ->
                   IF idx <= 1 THEN FALSE
                   ELSE IF ~matchesCompound(siblings[idx - 1], prevParts) THEN FALSE
                   ELSE matchBackwards(siblings[idx - 1], segments, segIdx - 1)
              [] combinator = "~" ->
                   \E i \in 1..(idx - 1) :
                       /\ matchesCompound(siblings[i], prevParts)
                       /\ matchBackwards(siblings[i], segments, segIdx - 1)
              [] OTHER -> FALSE

elementMatchesComplexSelector(el, nodes) ==
    LET segments == splitIntoCombinatorSegments(nodes) IN
    IF segments = <<>> THEN FALSE
    ELSE IF ~matchesCompound(el, segments[Len(segments)].parts) THEN FALSE
    ELSE IF Len(segments) = 1 THEN TRUE
    ELSE matchBackwards(el, segments, Len(segments))

matchesHasSelector(el, nodes) ==
    LET segments == splitIntoCombinatorSegments(nodes)
        first == segments[1]
        siblings == getRuntimeSiblings(el)
        idx == indexOf(siblings, el)
        current ==
            IF first.combinator = ">"
            THEN SelectSeq(tpl[el].children, LAMBDA ch : matchesCompound(ch, first.parts))
            ELSE IF first.combinator = "+"
            THEN IF idx # 0 /\ idx < Len(siblings) /\ matchesCompound(siblings[idx + 1], first.parts)
                 THEN <<siblings[idx + 1]>> ELSE <<>>
            ELSE IF first.combinator = "~"
            THEN IF idx # 0
                 THEN SelectSeq(SubSeq(siblings, idx + 1, Len(siblings)),
                                LAMBDA s : matchesCompound(s, first.parts))
                 ELSE <<>>
            ELSE findDescendantsMatching(tpl[el].children, first.parts)
    IN IF segments = <<>> THEN FALSE
       ELSE chainSegments(current, segments, 2) # <<>>

\* one simple selector of a compound against an element
matchesPart(el, part) ==
    CASE part.type = "universal" -> TRUE
      [] part.type = "tag" -> tpl[el].tag = part.value
      [] part.type = "class" -> includes(tpl[el].classes, part.value)
      [] part.type = "pseudo" ->
            IF part.value = ":has"
            THEN \E k \in 1..Len(part.nodes) : matchesHasSelector(el, part.nodes[k])
            ELSE IF part.value = ":not"
            THEN ~\E k \in 1..Len(part.nodes) : elementMatchesComplexSelector(el, part.nodes[k])
            ELSE IF part.value \in {":is", ":where"}
            THEN \E k \in 1..Len(part.nodes) : elementMatchesComplexSelector(el, part.nodes[k])
            ELSE matchStructuralPseudo(el, part)
      [] OTHER -> TRUE

matchesCompound(el, parts) == \A k \in 1..Len(parts) : matchesPart(el, parts[k])

\* `parentMatched || scopeElements`; an absent parentMatched is written <<>>
NestingScope(scopeElements, parentMatched) == scopeElements
nestingMatch(scopeElements, parentMatched) ==
    IF parentMatched # <<>> THEN parentMatched ELSE scopeElements

matchSelectorPart(selector, scopeElements, parentMatched) ==
    LET nodes == selector
        segments == splitIntoCombinatorSegments(nodes)
        first == segments[1]
        current ==
            IF first.combinator = ">"
            THEN SelectSeq(scopeElements, LAMBDA el : matchesCompound(el, first.parts))
            ELSE IF first.combinator = "+" THEN matchAdjacentSibling(scopeElements, <<>>, first.parts)
            ELSE IF first.combinator = "~" THEN matchGeneralSibling(scopeElements, <<>>, first.parts)
            ELSE findDescendantsMatching(scopeElements, first.parts)
    IN IF Len(nodes) = 1 /\ nodes[1].type = "nesting"
       THEN nestingMatch(scopeElements, parentMatched)
       ELSE IF segments = <<>> THEN <<>>
       ELSE chainSegments(current, segments, 2)

\* ast is the parsed selector list: one selector per comma-separated part
matchSelector(ast, scopeElements, parentMatched) ==
    Seen(Flat([k \in 1..Len(ast) |-> matchSelectorPart(ast[k], scopeElements, parentMatched)]),
         <<>>)

(***************************************************************************)
(* forwardTransform, phase 1 (collectClasses) and phase 2 (addClasses)     *)
(***************************************************************************)
RECURSIVE collectClasses(_, _, _, _)
\* the loop over the child rules of a rule, for one matched element
RECURSIVE collectChildRules(_, _, _)
collectChildRules(childRules, el, map) ==
    IF childRules = <<>> THEN map
    ELSE collectChildRules(Tail(childRules), el,
                           collectClasses(Head(childRules), tpl[el].children, map, <<el>>))

\* the loop over the matched elements of a rule
RECURSIVE collectMatched(_, _, _)
collectMatched(rule, matched, map) ==
    IF matched = <<>> THEN map
    ELSE LET el == Head(matched)
             pushed == IF rule.classes # <<>>
                       THEN [map EXCEPT ![el] = @ \o rule.classes]
                       ELSE map
         IN collectMatched(rule, Tail(matched), collectChildRules(rule.children, el, pushed))

collectClasses(rule, scopeElements, map, parentMatched) ==
    collectMatched(rule, matchSelector(rule.selector, scopeElements, parentMatched), map)

\* every contribution is kept
keepDuplicates(classes) == classes
\* [...new Set(classes)]
dedupedClasses(classes) == Seen(classes, <<>>)

\* the value of the class attribute after addClasses: the static classes, then the new ones
addClasses(el, classes) == tpl[el].classes \o dedupedClasses(classes)

MatcherIdle ==
    /\ tpl = <<>>
    /\ sheet = <<>>
    /\ classMap = <<>>
    /\ applied = <<>>
    /\ mpc = <<"idle", 0>>
    /\ nth = [expr |-> <<>>, pos |-> 0, done |-> FALSE, result |-> FALSE]

\* phase 1, one top-level rule: collectClasses(rule, templateNodes, classMap, matchedRules)
CollectRule ==
    /\ mpc[1] = "collect"
    /\ classMap' = collectClasses(sheet[mpc[2]], templateNodes, classMap, <<>>)
    /\ mpc' = IF mpc[2] = Len(sheet) THEN <<"apply", 0>> ELSE <<"collect", mpc[2] + 1>>
    /\ UNCHANGED <<tpl, sheet, applied, nth>>
    /\ UNCHANGED <<resolverVars, parseVars>>

\* phase 2: addClasses for every entry of the map
ApplyClasses ==
    /\ mpc[1] = "apply"
    /\ applied' = [el \in 1..Len(tpl) |->
                      IF classMap[el] # <<>> THEN addClasses(el, classMap[el]) ELSE tpl[el].classes]
    /\ mpc' = <<"done", 0>>
    /\ UNCHANGED <<tpl, sheet, classMap, nth>>
    /\ UNCHANGED <<resolverVars, parseVars>>

\* one call of matchesAnPlusB
EvalNth ==
    /\ ~nth.done
    /\ nth.pos > 0
    /\ nth' = [nth EXCEPT !.done = TRUE, !.result = matchesAnPlusB(nth.expr, nth.pos)]
    /\ UNCHANGED <<tpl, sheet, classMap, applied, mpc>>
    /\ UNCHANGED <<resolverVars, parseVars>>

(***************************************************************************)
(* The style parser (src/parser/style-tree.ts): rule bodies.  Source text  *)
(* is a sequence of characters; positions are 1-based, so the offset i of  *)
(* the source is the position i + 1 and "not found" (-1) is 0.             *)
(***************************************************************************)
NL == "\n"

\* the lines of a text: String.prototype.split('\n')
lineBreaks(text) == {i \in 1..Len(text) : text[i] = NL}
splitLines(text) ==
    LET breaks == lineBreaks(text)
        \* the k-th line break, 0 before the first and Len + 1 behind the last
        at(k) == IF k = 0 THEN 0
                 ELSE IF k > Cardinality(breaks) THEN Len(text) + 1
                 ELSE CHOOSE i \in breaks : Cardinality({j \in breaks : j < i}) = k - 1
    IN [k \in 1..(Cardinality(breaks) + 1) |-> SubSeq(text, at(k - 1) + 1, at(k) - 1)]

\* Array.prototype.join('\n')
RECURSIVE joinLines(_)
joinLines(lines) ==
    IF lines = <<>> THEN <<>>
    ELSE IF Len(lines) = 1 THEN lines[1]
    ELSE lines[1] \o <<NL>> \o joinLines(Tail(lines))

\* trimmed.split(/\s+/).filter(Boolean)
RECURSIVE splitWords(_)
splitWords(text) ==
    LET t == trimStart(text)
        blanks == {i \in 1..Len(t) : t[i] \in WhiteSpace}
        wordEnd == IF blanks = {} THEN Len(t) + 1 ELSE CHOOSE i \in blanks : \A j \in blanks : i <= j
    IN IF t = <<>> THEN <<>>
       ELSE <<SubSeq(t, 1, wordEnd - 1)>> \o splitWords(SubSeq(t, wordEnd, Len(t)))

startsWith(text, prefix) == Len(text) >= Len(prefix) /\ SubSeq(text, 1, Len(prefix)) = prefix
endsWith(text, c) == text # <<>> /\ text[Len(text)] = c

\* text.replace(/\/\*[\s\S]*?\*\//g, ''): the leftmost `/*` that has a `*/` behind it is
\* cut out up to the nearest `*/`, and so on behind it
RECURSIVE stripComments(_)
stripComments(text) ==
    LET closes(i) == {j \in (i + 2)..(Len(text) - 1) : text[j] = "*" /\ text[j + 1] = "/"}
        opens == {i \in 1..(Len(text) - 1) : text[i] = "/" /\ text[i + 1] = "*" /\ closes(i) # {}}
        open == CHOOSE i \in opens : \A j \in opens : i <= j
        close == CHOOSE j \in closes(open) : \A k \in closes(open) : j <= k
    IN IF opens = {} THEN text
       ELSE SubSeq(text, 1, open - 1) \o stripComments(SubSeq(text, close + 2, Len(text)))

\* the scanner shared by findTopLevelChar and findMatchingBrace; inString is "" outside
\* a string
ScanState(depth, inBracket, inString, inComment) ==
    [depth |-> depth, inBracket |-> inBracket, inString |-> inString, inComment |-> inComment]
charAt(src, i) == IF 1 <= i /\ i <= Len(src) THEN src[i] ELSE ""
\* the character at i is outside strings, comments and brackets, where braces count
atTopLevel(src, i, st) ==
    /\ st.inString = "" /\ ~st.inComment
    /\ ~(charAt(src, i) = "/" /\ charAt(src, i + 1) = "*")
    /\ charAt(src, i) \notin {"\"", "'", "[", "]"}
    /\ st.inBracket = 0
\* one pass of the loop body: the state behind the character at i
scanStep(src, i, st) ==
    LET c == charAt(src, i) IN
    CASE st.inString # "" ->
             IF c = st.inString /\ charAt(src, i - 1) # "\\" THEN [st EXCEPT !.inString = ""] ELSE st
      [] st.inString = "" /\ st.inComment ->
             IF c = "*" /\ charAt(src, i + 1) = "/" THEN [st EXCEPT !.inComment = FALSE] ELSE st
      [] OTHER ->
             CASE c = "/" /\ charAt(src, i + 1) = "*" -> [st EXCEPT !.inComment = TRUE]
               [] c \in {"\"", "'"} -> [st EXCEPT !.inString = c]
               [] c = "[" -> [st EXCEPT !.inBracket = @ + 1]
               [] c = "]" -> [st EXCEPT !.inBracket = @ - 1]
               [] OTHER ->
                      IF st.inBracket # 0 THEN st
                      ELSE IF c = "{" THEN [st EXCEPT !.depth = @ + 1]
                      ELSE IF c = "}" THEN [st EXCEPT !.depth = @ - 1]
                      ELSE st
\* the `i++` inside the loop body when a comment opens or closes
scanNext(src, i, st) ==
    IF st.inString = "" /\ charAt(src, i + 1) \in {"*", "/"}
       /\ \/ st.inComment /\ charAt(src, i) = "*" /\ charAt(src, i + 1) = "/"
          \/ ~st.inComment /\ charAt(src, i) = "/" /\ charAt(src, i + 1) = "*"
    THEN i + 2 ELSE i + 1

RECURSIVE scanTopLevel(_, _, _, _, _)
scanTopLevel(src, i, end, char, st) ==
    IF i >= end THEN 0
    ELSE IF atTopLevel(src, i, st) /\ st.depth = 0 /\ src[i] = char THEN i
    ELSE scanTopLevel(src, scanNext(src, i, st), end, char, scanStep(src, i, st))

findTopLevelChar(src, start, end, char) ==
    scanTopLevel(src, start, end, char, ScanState(0, 0, "", FALSE))

\* Len(src) + 1 stands for src.length
RECURSIVE scanBrace(_, _, _)
scanBrace(src, i, st) ==
    IF i > Len(src) THEN Len(src) + 1
    ELSE IF atTopLevel(src, i, st) /\ src[i] = "}" /\ st.depth = 1 THEN i
    ELSE scanBrace(src, scanNext(src, i, st), scanStep(src, i, st))

findMatchingBrace(src, openPos) == scanBrace(src, openPos + 1, ScanState(1, 0, "", FALSE))

AMBIGUOUS_TAG_CLASSES ==
    { <<"f", "l", "e", "x">>,
      <<"g", "r", "i", "d">>,
      <<"t", "a", "b", "l", "e">>,
      <<"h", "i", "d", "d", "e", "n">>,
      <<"b", "l", "o", "c", "k">>,
      <<"i", "n", "l", "i", "n", "e">>,
      <<"c", "o", "n", "t", "e", "n", "t", "s">>,
      <<"f", "i", "x", "e", "d">>,
      <<"a", "b", "s", "o", "l", "u", "t", "e">>,
      <<"r", "e", "l", "a", "t", "i", "v", "e">>,
      <<"s", "t", "i", "c", "k", "y">>,
      <<"s", "t", "a", "t", "i", "c">>,
      <<"v", "i", "s", "i", "b", "l", "e">>,
      <<"i", "n", "v", "i", "s", "i", "b", "l", "e">>,
      <<"c", "o", "l", "l", "a", "p", "s", "e">> }

\* every text is a selector
alwaysSelector(text) == TRUE
looksLikeSelector(text) ==
    LET trimmed == trim(text) IN
    IF trimmed # <<>> /\ Head(trimmed) \in {">", "+", "~", ".", "#", "[", "*", "&", ":"} THEN TRUE
    ELSE IF \E i \in 1..Len(trimmed) : trimmed[i] \in {">", "+", "~", ".", "#", "[", "]", ":", ","}
    THEN TRUE
    ELSE IF trimmed \in AMBIGUOUS_TAG_CLASSES THEN FALSE
    ELSE TRUE

\* index of the last line that is not blank, or 0
RECURSIVE lastNonEmpty(_, _)
lastNonEmpty(lines, i) ==
    IF i < 1 THEN 0 ELSE IF trim(lines[i]) # <<>> THEN i ELSE lastNonEmpty(lines, i - 1)

\* the walk backwards over lines that end with a comma
RECURSIVE selectorStartFrom(_, _)
selectorStartFrom(lines, i) ==
    IF i > 1 /\ endsWith(trim(lines[i - 1]), ",") THEN selectorStartFrom(lines, i - 1) ELSE i

\* the text before a `{` read as a selector from its first word on
wholeTextIsSelector(text) == [classText |-> <<>>, selector |-> trim(text)]
splitClassesAndSelector(text) ==
    LET lines == splitLines(text)
        selectorEnd == lastNonEmpty(lines, Len(lines))
        selectorStart == selectorStartFrom(lines, selectorEnd)
        selector == trim(joinLines(SubSeq(lines, selectorStart, selectorEnd)))
    IN IF selectorEnd = 0 THEN [classText |-> <<>>, selector |-> <<>>]
       ELSE IF ~looksLikeSelector(selector) THEN [classText |-> text, selector |-> <<>>]
       ELSE [classText |-> joinLines(SubSeq(lines, 1, selectorStart - 1)), selector |-> selector]

\* what a rule body holds
Body(classes, declarations, uses, children) ==
    [classes |-> classes, declarations |-> declarations, uses |-> uses, children |-> children]

\* \w of a regular expression, on the characters the inputs are written with
WordChars ==
    {"a", "b", "c", "d", "e", "f", "g", "h", "i", "j", "k", "l", "m", "n", "o", "p", "q", "r",
     "s", "t", "u", "v", "w", "x", "y", "z", "0", "1", "2", "3", "4", "5", "6", "7", "8", "9", "_"}
\* ['"]([^'"]+)['"] with an optional `;` behind it
IsQuotedPath(word) ==
    LET w == IF endsWith(word, ";") THEN SubSeq(word, 1, Len(word) - 1) ELSE word
    IN /\ Len(w) >= 3
       /\ w[1] \in {"'", "\""} /\ w[Len(w)] \in {"'", "\""}
       /\ \A i \in 2..(Len(w) - 1) : w[i] \notin {"'", "\""}
\* [\w][\w-]*
IsName(word) ==
    /\ word # <<>> /\ word[1] \in WordChars
    /\ \A i \in 2..Len(word) : word[i] \in WordChars \cup {"-"}

\* /^@use\s+([\w][\w-]*)(?:\s+from\s+['"]([^'"]+)['"])?\s*;?\s*$/, read word by word;
\* the result is <<>> for null
parseUseDirective(text) ==
    LET stripped == trimEnd(text)
        body == IF endsWith(stripped, ";") THEN SubSeq(stripped, 1, Len(stripped) - 1) ELSE stripped
        words == splitWords(body)
    IN IF /\ Len(words) \in {2, 4}
          /\ words[1] = <<"@", "u", "s", "e">>
          /\ IsName(words[2])
          /\ Len(words) = 4 => (words[3] = <<"f", "r", "o", "m">> /\ IsQuotedPath(words[4]))
       THEN <<[name |-> words[2],
               from |-> IF Len(words) = 4 THEN SubSeq(words[4], 2, Len(words[4]) - 1) ELSE <<>>]>>
       ELSE <<>>

\* the loop of extractContent over the lines of the cleaned text
RECURSIVE extractLines(_, _)
extractLines(lines, into) ==
    IF lines = <<>> THEN into
    ELSE LET trimmed == trim(Head(lines)) IN
         extractLines(Tail(lines),
             IF trimmed = <<>> THEN into
             ELSE IF startsWith(trimmed, <<"@", "u", "s", "e", " ">>) \/ trimmed = <<"@", "u", "s", "e">>
             THEN [into EXCEPT !.uses = @ \o parseUseDirective(trimmed)]
             ELSE IF endsWith(trimmed, ";")
             THEN [into EXCEPT !.declarations = Append(@, trimmed)]
             ELSE [into EXCEPT !.classes = @ \o splitWords(trimmed)])

extractContent(text, into) == extractLines(splitLines(stripComments(text)), into)

\* the names of /^@(media|keyframes|supports|layer|container|font-face|property|page|counter-style)\b/
UnsupportedAtRules ==
    { <<"@", "m", "e", "d", "i", "a">>,
      <<"@", "k", "e", "y", "f", "r", "a", "m", "e", "s">>,
      <<"@", "s", "u", "p", "p", "o", "r", "t", "s">>,
      <<"@", "l", "a", "y", "e", "r">>,
      <<"@", "c", "o", "n", "t", "a", "i", "n", "e", "r">>,
      <<"@", "f", "o", "n", "t", "-", "f", "a", "c", "e">>,
      <<"@", "p", "r", "o", "p", "e", "r", "t", "y">>,
      <<"@", "p", "a", "g", "e">>,
      <<"@", "c", "o", "u", "n", "t", "e", "r", "-", "s", "t", "y", "l", "e">> }
\* the test of the regular expression: one of the names, with a word boundary behind it
IsAtRule(selector) ==
    \E name \in UnsupportedAtRules :
        /\ startsWith(selector, name)
        /\ Len(selector) = Len(name) \/ selector[Len(name) + 1] \notin WordChars

\* the `while (pos < end)` loop of parseBody
RECURSIVE parseBodyFrom(_, _, _, _)
parseBodyFrom(src, pos, end, into) ==
    IF pos >= end THEN into
    ELSE LET bracePos == findTopLevelChar(src, pos, end, "{")
             textBefore == SubSeq(src, pos, bracePos - 1)
             split == splitClassesAndSelector(textBefore)
             content == extractContent(split.classText, into)
             closePos == findMatchingBrace(src, bracePos)
             trimmedSel == trim(split.selector)
             inner == parseBodyFrom(src, bracePos + 1, closePos, Body(<<>>, <<>>, <<>>, <<>>))
         IN IF bracePos = 0 THEN extractContent(SubSeq(src, pos, end - 1), into)
            ELSE IF IsAtRule(trimmedSel) THEN parseBodyFrom(src, closePos + 1, end, content)
            ELSE parseBodyFrom(src, closePos + 1, end,
                     [content EXCEPT !.children =
                         Append(@, [selector |-> trimmedSel, body |-> inner])])

parseBody(src, start, end) == parseBodyFrom(src, start, end, Body(<<>>, <<>>, <<>>, <<>>))

ParserIdle ==
    /\ made = <<>>
    /\ styleSrc = <<>>
    /\ parsed = [done |-> FALSE, body |-> Body(<<>>, <<>>, <<>>, <<>>)]

\* parseRules handing the body of a rule `& { ... }` to parseBody
ParseRuleBody ==
    /\ styleSrc # <<>>
    /\ ~parsed.done
    /\ LET bracePos == findTopLevelChar(styleSrc, 1, Len(styleSrc) + 1, "{")
           closePos == findMatchingBrace(styleSrc, bracePos)
       IN parsed' = [done |-> TRUE, body |-> parseBody(styleSrc, bracePos + 1, closePos)]
    /\ UNCHANGED <<made, styleSrc>>
    /\ UNCHANGED <<resolverVars, matchVars>>

(***************************************************************************)
(* The style parser: a whole style block (parseStyleBlock, parseRules) and *)
(* its diagnostics                                                         *)
(***************************************************************************)
\* String.prototype.indexOf(pat, from), 1-based; 0 when absent
indexOfText(src, pat, from) ==
    LET hits == {i \in from..(Len(src) - Len(pat) + 1) : SubSeq(src, i, i + Len(pat) - 1) = pat}
    IN IF hits = {} THEN 0 ELSE CHOOSE i \in hits : \A j \in hits : i <= j

\* src.startsWith(pat, pos)
startsWithAt(src, pat, pos) ==
    pos + Len(pat) - 1 <= Len(src) /\ SubSeq(src, pos, pos + Len(pat) - 1) = pat

\* the 1-based line of the position given: one more than the line breaks in front of it
lineAt(src, pos) ==
    1 + Cardinality({i \in 1..(pos - 1) : i <= Len(src) /\ src[i] = NL})

\* a console.warn of the parser; `line` is what formatLoc printed
ParserWarning(kind, line) == [kind |-> kind, line |-> line]

\* the position behind the white space and comments at pos
RECURSIVE skipWhitespaceAndComments(_, _, _)
skipWhitespaceAndComments(src, pos, end) ==
    IF pos >= end THEN pos
    ELSE IF src[pos] \in WhiteSpace THEN skipWhitespaceAndComments(src, pos + 1, end)
    ELSE IF src[pos] = "/" /\ charAt(src, pos + 1) = "*"
    THEN LET close == indexOfText(src, <<"*", "/">>, pos + 2)
         IN skipWhitespaceAndComments(src, IF close = 0 THEN end ELSE close + 2, end)
    ELSE pos

\* /^@import\s+([\w][\w\s,-]*)\s+from\s+['"]([^'"]+)['"]\s*;?\s*$/, read word by word;
\* the result is <<>> for null
parseImportDirective(text) ==
    LET words == splitWords(text)
        n == Len(words)
    IN IF /\ n >= 4
          /\ words[1] = <<"@", "i", "m", "p", "o", "r", "t">>
          /\ words[2][1] \in WordChars
          /\ \A k \in 2..(n - 2) : \A i \in 1..Len(words[k]) : words[k][i] \in WordChars \cup {",", "-"}
          /\ words[n - 1] = <<"f", "r", "o", "m">>
          /\ IsQuotedPath(words[n])
       THEN <<[names |-> SubSeq(words, 2, n - 2), from |-> words[n]]>>
       ELSE <<>>

\* the warnings of extractContent on the text that begins at baseOffset: a line that
\* begins with @use and is no directive; lineOffset counts the lines of the cleaned text
RECURSIVE contentWarningsFrom(_, _, _, _)
contentWarningsFrom(src, lines, baseOffset, lineOffset) ==
    IF lines = <<>> THEN <<>>
    ELSE LET trimmed == trim(Head(lines))
             isUse == startsWith(trimmed, <<"@", "u", "s", "e", " ">>) \/ trimmed = <<"@", "u", "s", "e">>
         IN (IF isUse /\ parseUseDirective(trimmed) = <<>>
             THEN <<ParserWarning("Malformed @use", lineAt(src, baseOffset + lineOffset))>>
             ELSE <<>>)
            \o contentWarningsFrom(src, Tail(lines), baseOffset, lineOffset + Len(Head(lines)) + 1)

contentWarnings(src, text, baseOffset) ==
    contentWarningsFrom(src, splitLines(stripComments(text)), baseOffset, 0)

\* the warnings of parseBody, in the order of the calls
RECURSIVE bodyWarnings(_, _, _)
bodyWarnings(src, pos, end) ==
    IF pos >= end THEN <<>>
    ELSE LET bracePos == findTopLevelChar(src, pos, end, "{")
             split == splitClassesAndSelector(SubSeq(src, pos, bracePos - 1))
             closePos == findMatchingBrace(src, bracePos)
         IN IF bracePos = 0 THEN contentWarnings(src, SubSeq(src, pos, end - 1), pos)
            ELSE contentWarnings(src, split.classText, pos)
                 \o (IF IsAtRule(trim(split.selector))
                     THEN <<ParserWarning("not supported", lineAt(src, pos))>>
                     ELSE bodyWarnings(src, bracePos + 1, closePos))
                 \o bodyWarnings(src, closePos + 1, end)

\* a ParseResult with the warnings of the parse
ParseResult(rules, exports, imports, warned) ==
    [rules |-> rules, exports |-> exports, imports |-> imports, warned |-> warned]

\* the `while (ctx.pos < end)` loop of parseRules
RECURSIVE parseRulesFrom(_, _, _, _)
parseRulesFrom(src, from, end, into) ==
    LET pos == skipWhitespaceAndComments(src, from, end)
        \* @import
        lineEnd == indexOfText(src, <<NL>>, pos)
        actualEnd == IF lineEnd = 0 \/ lineEnd > end THEN end ELSE lineEnd
        line == trim(SubSeq(src, pos, actualEnd - 1))
        directive == parseImportDirective(line)
        \* selector { body }
        bracePos == findTopLevelChar(src, pos, end, "{")
        textBefore == trim(SubSeq(src, pos, bracePos - 1))
        closePos == findMatchingBrace(src, bracePos)
        unclosed == IF closePos >= Len(src) + 1
                    THEN <<ParserWarning("Unclosed", lineAt(src, bracePos))>> ELSE <<>>
        body == parseBody(src, bracePos + 1, closePos)
        block == [selector |-> textBefore, body |-> body]
        prefix == <<"@", "e", "x", "p", "o", "r", "t", " ">>
        export == [name |-> trim(SubSeq(textBefore, Len(prefix) + 1, Len(textBefore))), body |-> body]
        warned == into.warned \o unclosed \o bodyWarnings(src, bracePos + 1, closePos)
    IN IF from >= end \/ pos >= end THEN into
       ELSE IF startsWithAt(src, <<"@", "i", "m", "p", "o", "r", "t", " ">>, pos)
       THEN parseRulesFrom(src, actualEnd + 1, end,
                IF directive # <<>>
                THEN [into EXCEPT !.imports = @ \o directive]
                ELSE [into EXCEPT !.warned = Append(@, ParserWarning("Malformed @import", lineAt(src, pos)))])
       ELSE IF bracePos = 0 THEN into
       ELSE IF IsAtRule(textBefore)
       THEN parseRulesFrom(src, closePos + 1, end,
                [into EXCEPT !.warned = @ \o unclosed
                                          \o <<ParserWarning("not supported", lineAt(src, pos))>>])
       ELSE IF startsWith(textBefore, prefix)
       THEN parseRulesFrom(src, closePos + 1, end,
                [into EXCEPT !.exports = Append(@, export), !.warned = warned])
       ELSE parseRulesFrom(src, closePos + 1, end,
                [into EXCEPT !.rules = Append(@, block), !.warned = warned])

parseStyleBlock(content) ==
    parseRulesFrom(content, 1, Len(content) + 1, ParseResult(<<>>, <<>>, <<>>, <<>>))

\* parseStyleBlock(ft.content, id) of forwardTransform
ParseStyleBlock ==
    /\ styleSrc # <<>>
    /\ ~parsed.done
    /\ parsed' = [done |-> TRUE, result |-> parseStyleBlock(styleSrc)]
    /\ UNCHANGED <<made, styleSrc>>
    /\ UNCHANGED <<resolverVars, matchVars>>

(***************************************************************************)
(* From the parsed rules to phase 1: the selector text of a rule is parsed *)
(* by selectorParser().astSync when matchSelector is called.  The parser   *)
(* is modelled on the selectors the style blocks here are written with:    *)
(* tags, classes, `*`, `&`, the combinators and commas.                    *)
(***************************************************************************)
SelectorPunctuation == WhiteSpace \cup {">", "+", "~", ".", ",", "*", "&"}
\* the position behind the name that begins at i
nameEnd(text, i) ==
    LET stops == {j \in i..Len(text) : text[j] \in SelectorPunctuation}
    IN IF stops = {} THEN Len(text) + 1 ELSE CHOOSE j \in stops : \A k \in stops : j <= k

\* the nodes of one selector; a run of white space between two compounds is the
\* descendant combinator, white space around `>`, `+`, `~` belongs to the combinator
RECURSIVE selectorNodes(_, _, _, _)
selectorNodes(text, i, nodes, spaced) ==
    IF i > Len(text) THEN nodes
    ELSE LET c == text[i]
             descendant == spaced /\ nodes # <<>> /\ nodes[Len(nodes)].type # "combinator"
             sofar == IF descendant THEN Append(nodes, Combinator(" ")) ELSE nodes
         IN IF c \in WhiteSpace THEN selectorNodes(text, i + 1, nodes, TRUE)
            ELSE IF c \in {">", "+", "~"} THEN selectorNodes(text, i + 1, Append(nodes, Combinator(c)), FALSE)
            ELSE IF c = "*" THEN selectorNodes(text, i + 1, Append(sofar, SelUniversal), FALSE)
            ELSE IF c = "&" THEN selectorNodes(text, i + 1, Append(sofar, SelNesting), FALSE)
            ELSE IF c = "."
            THEN selectorNodes(text, nameEnd(text, i + 1),
                               Append(sofar, SelClass(SubSeq(text, i + 1, nameEnd(text, i + 1) - 1))), FALSE)
            ELSE selectorNodes(text, nameEnd(text, i),
                               Append(sofar, SelTag(SubSeq(text, i, nameEnd(text, i) - 1))), FALSE)

\* the selectors of a selector list, one per comma-separated part
selectorParser(text) ==
    LET commas == {i \in 1..Len(text) : text[i] = ","}
        at(k) == IF k = 0 THEN 0
                 ELSE IF k > Cardinality(commas) THEN Len(text) + 1
                 ELSE CHOOSE i \in commas : Cardinality({j \in commas : j < i}) = k - 1
    IN [k \in 1..(Cardinality(commas) + 1) |->
           selectorNodes(SubSeq(text, at(k - 1) + 1, at(k) - 1), 1, <<>>, FALSE)]

\* the rules of a style block without directives as collectClasses reads them
RECURSIVE matchRules(_)
matchRules(rules) ==
    [k \in 1..Len(rules) |->
        MatchRule(selectorParser(rules[k].selector), rules[k].body.classes,
                  matchRules(rules[k].body.children))]

\* forwardTransform between parseStyleBlock and phase 1
LoadRules ==
    /\ mpc = <<"parse", 0>>
    /\ parsed.done
    /\ sheet' = matchRules(parsed.result.rules)
    /\ mpc' = IF parsed.result.rules = <<>> THEN <<"apply", 0>> ELSE <<"collect", 1>>
    /\ UNCHANGED <<tpl, classMap, applied, nth>>
    /\ UNCHANGED <<resolverVars, parseVars>>

(***************************************************************************)
(* Inputs                                                                  *)
(***************************************************************************)
ExportNames == <<"a", "b", "c">>
Names == {ExportNames[i] : i \in 1..Len(ExportNames)}
\* what a block may @use: an export of the unit, or the undefined name z
Targets == Names \cup {"z"}
None == "-"
OwnClass == [n \in Names |-> CASE n = "a" -> "A" [] n = "b" -> "B" [] OTHER -> "C"]
OwnDecl == [n \in Names |-> CASE n = "a" -> "a;" [] n = "b" -> "b;" [] OTHER -> "c;"]

UseOf(t) == IF t = None THEN <<>> ELSE <<Use(t)>>

\* @export n { N  n;  @use g[n]  .k { K @use kid.use } }
GraphExport(n, g, kid) ==
    Block(n, <<Cls(OwnClass[n]), Decl(OwnDecl[n])>> \o UseOf(g[n]),
          IF kid.of = n THEN <<Block(".k", <<Cls("K")>> \o UseOf(kid.use), <<>>)>> ELSE <<>>)

\* the units `exports a, b, c; & { R r; @use a }`, one for every @use graph over the
\* exports with at most one @use per export and at most one child rule among them
GraphUnits ==
    { Unit(ConsumerPath,
           <<Block("&", <<Cls("R"), Decl("r;"), Use("a")>>, <<>>)>>,
           [i \in 1..Len(ExportNames) |-> GraphExport(ExportNames[i], g, kid)],
           <<>>) :
        g \in [Names -> Targets \cup {None}],
        kid \in {[of |-> None, use |-> None]}
                \cup [of : Names, use : Targets \cup {None}] }

\* one export used at two sites, with a child and a grandchild
TwoSites ==
    Unit(ConsumerPath,
         <<Block("&", <<Cls("R")>>,
                 <<Block(".x", <<Use("a")>>, <<>>),
                   Block(".y", <<Cls("Y"), Use("a")>>, <<Block(".own", <<Cls("O")>>, <<>>)>>)>>)>>,
         <<Block("a", <<Cls("A"), Use("b")>>,
                 <<Block(".k", <<Cls("K")>>, <<Block(".g", <<Cls("G"), Use("b")>>, <<>>)>>)>>),
           Block("b", <<Cls("B"), Decl("b;")>>, <<Block(".h", <<Cls("H")>>, <<>>)>>)>>,
         <<>>)

\* @use lines before, between and after the rule's own classes; two uses in an export
UseOrder ==
    Unit(ConsumerPath,
         <<Block("&", <<Use("b"), Cls("R"), Decl("r;"), Use("a"), Cls("S"), Use("z"), Decl("s;")>>, <<>>)>>,
         <<Block("b", <<Cls("B"), Decl("b;")>>, <<>>),
           Block("a", <<Use("c"), Cls("A"), Use("b"), Decl("a;")>>, <<>>),
           Block("c", <<Cls("C")>>, <<>>),
           Block("c", <<Cls("C2"), Decl("c2;")>>, <<>>)>>,
         <<>>)

\* directives that reach other files: a missing file, a file without a style block,
\* names the file does not export, and a library whose exports compose
FileUnit ==
    Unit(ConsumerPath,
         <<Block("&", <<Cls("R"), UseFrom("x", "N"), Use("y"), Use("q")>>,
                 <<Block(".m", <<Cls("M"), UseFrom("q", "L"), UseFrom("y", "L")>>, <<>>),
                   Block(".t", <<Cls("T"), UseFrom("x", "T"), Use("x")>>, <<>>)>>)>>,
         <<Block("x", <<Cls("X0"), UseFrom("x", "L")>>, <<>>)>>,
         <<Import(<<"y", "q">>, "L"), Import(<<"y">>, "N")>>)

\* a consumer of two files whose exports @use each other
CrossFile == Unit(ConsumerPath, <<Block("&", <<Cls("R"), UseFrom("a", "A")>>, <<>>)>>, <<>>, <<>>)

\* a unit without any @use: a rule tree that is resolved already
Resolved ==
    Unit(ConsumerPath,
         <<Block("&", <<Cls("R"), Cls("R"), Decl("r;")>>, <<Block(".x", <<Cls("X")>>, <<>>)>>)>>,
         <<Block("a", <<Cls("A")>>, <<>>)>>,
         <<>>)

Units == GraphUnits \cup {TwoSites, UseOrder, FileUnit, CrossFile, Resolved}

LibV1 ==
    File("sfc", <<Block("x", <<Cls("X")>>, <<>>),
                  Block("y", <<Cls("Y"), Use("x"), Decl("y;")>>, <<Block(".k", <<Cls("K"), Use("x")>>, <<>>)>>)>>)
LibV2 == File("sfc", <<Block("y", <<Cls("Y2")>>, <<>>)>>)

Disk ==
    [p \in Paths |->
        CASE p = "A" -> File("sfc", <<Block("a", <<Cls("A"), UseFrom("b", "B")>>, <<>>)>>)
          [] p = "B" -> File("sfc", <<Block("b", <<Cls("B"), UseFrom("a", "A")>>, <<>>)>>)
          [] p = "L" -> LibV1
          [] p = "N" -> File("missing", <<>>)
          [] OTHER -> File("plain", <<>>)]

(***************************************************************************)
(* Specifications                                                          *)
(***************************************************************************)
ResolverIdle ==
    /\ heap = <<>>
    /\ stack = <<>>
    /\ sets = <<>>
    /\ warnings = <<>>
    /\ files = Disk
    /\ exportsCache = [s \in StateIds |-> [p \in Paths |-> NotCached]]
    /\ importDeps = [s \in StateIds |-> [u \in ConsumerPaths |-> {}]]
    /\ phase = "idle"
    /\ ret = <<>>
    /\ unit = Unit(ConsumerPath, <<>>, <<>>, <<>>)
    /\ root = [rules |-> 0, exports |-> <<>>]
    /\ cur = "s1"
    /\ pass = 1

Init == ResolverIdle /\ MatcherIdle /\ ParserIdle

\* one forwardTransform of any unit
Transform == \E u \in Units : forwardTransform(u, "s1")

Resolve ==
    /\ UNCHANGED engineVars
    /\ \/ UseLocal \/ UseFromFile \/ UseLoaded
       \/ CloneChild \/ CloneDone \/ DrainAndRecurse \/ NextRule \/ ReturnFromExport
       \/ LoadCached \/ LoadUnreadable \/ LoadNoStyleBlock \/ LoadParse
       \/ LoadResolveNext \/ LoadStore
       \/ ImportNext \/ ImportLoaded \/ ImportsDone
       \/ resolveUsesInExport \/ resolveUsesInRules \/ StoreDeps

Next == Transform \/ Resolve \/ Reresolve

Spec == Init /\ [][Next]_vars

\* a session: transforms of the consumers of the library L in either state, with the
\* library rewritten and the caches cleared in between
UseLib ==
    Unit(ConsumerPath, <<Block("&", <<Cls("R"), Use("y")>>, <<>>)>>, <<>>, <<Import(<<"y">>, "L")>>)
UseLibDirect ==
    Unit(OtherConsumerPath, <<Block("&", <<Cls("R"), UseFrom("y", "L")>>, <<>>)>>, <<>>, <<>>)
\* a consumer without any reference to another file
UseNothing ==
    Unit(ConsumerPath, <<Block("&", <<Cls("R")>>, <<>>)>>, <<Block("e", <<Cls("E")>>, <<>>)>>, <<>>)
\* references from a local export, from a nested rule and from an @import
UseInExport ==
    Unit(OtherConsumerPath,
         <<Block("&", <<Cls("R"), Use("e")>>, <<Block(".n", <<Cls("N"), UseFrom("x", "T")>>, <<>>)>>)>>,
         <<Block("e", <<Cls("E"), UseFrom("y", "L")>>, <<>>)>>,
         <<Import(<<"q">>, "N")>>)
SessionUnits == {UseLib, UseLibDirect}
DepsUnits == {UseLib, UseLibDirect, UseNothing, UseInExport}
LibVersions == {LibV1, LibV2, File("missing", <<>>), File("plain", <<>>)}
All == "*"

SessionTransform == \E u \in SessionUnits : \E s \in StateIds : forwardTransform(u, s)
ClearCache == \E p \in {"L", All} : \E s \in StateIds : clearExportsCache(p, s)
Write == \E c \in LibVersions : WriteFile("L", c)

SessionNext == SessionTransform \/ Resolve \/ Return \/ ClearCache \/ Write

SessionSpec == Init /\ [][SessionNext]_vars

\* sessions of consumers that come to reference other files, or cease to: transforms
\* (some returning null) in either state with caches cleared in between, the files fixed
DepsTransform == \E u \in DepsUnits : \E s \in StateIds : forwardTransform(u, s)
DepsNull == \E p \in ConsumerPaths : \E s \in StateIds : forwardTransformNull(p, s)

DepsNext == DepsTransform \/ DepsNull \/ Resolve \/ Return \/ ClearCache

DepsSpec == Init /\ [][DepsNext]_vars

(***************************************************************************)
(* Inputs of the matcher                                                   *)
(***************************************************************************)
\* a root <div> whose children are the kids given, each <<tag, conditional>>
Family(kids) ==
    <<TemplateNode("div", <<>>, 0, [i \in 1..Len(kids) |-> i + 1], NoCond)>>
    \o [i \in 1..Len(kids) |-> TemplateNode(kids[i][1], <<>>, 1, <<>>, kids[i][2])]

KidTags == {"h2", "p"}
\* v-if / v-else-if / v-else chains among the children of one parent
CondPatterns ==
    { <<NoCond, NoCond, NoCond>>,
      <<Conditional(1, 0), Conditional(1, 1), NoCond>>,
      <<NoCond, Conditional(1, 0), Conditional(1, 1)>>,
      <<Conditional(1, 0), Conditional(1, 1), Conditional(1, 2)>>,
      <<NoCond, Conditional(1, 0), Conditional(1, 1), NoCond>>,
      <<Conditional(1, 0), Conditional(1, 1), Conditional(2, 0), Conditional(2, 1)>>,
      <<Conditional(1, 0), NoCond, Conditional(2, 0), Conditional(2, 1)>> }
Families ==
    UNION { { Family([i \in 1..Len(pat) |-> <<tags[i], pat[i]>>]) :
                tags \in [1..Len(pat) -> KidTags] } : pat \in CondPatterns }

\* <div><div><div><p/></div><p/></div></div>
TplDeep ==
    << TemplateNode("div", <<>>, 0, <<2>>, NoCond),
       TemplateNode("div", <<>>, 1, <<3, 5>>, NoCond),
       TemplateNode("div", <<>>, 2, <<4>>, NoCond),
       TemplateNode("p", <<>>, 3, <<>>, NoCond),
       TemplateNode("p", <<>>, 2, <<>>, NoCond) >>
\* <div><span/><p><span/></p><h2/><p/></div>
TplSpans ==
    << TemplateNode("div", <<>>, 0, <<2, 3, 5, 6>>, NoCond),
       TemplateNode("span", <<>>, 1, <<>>, NoCond),
       TemplateNode("p", <<>>, 1, <<4>>, NoCond),
       TemplateNode("span", <<>>, 3, <<>>, NoCond),
       TemplateNode("h2", <<>>, 1, <<>>, NoCond),
       TemplateNode("p", <<>>, 1, <<>>, NoCond) >>
\* a fragment: <div><p/></div><p class="lead w"/><h2/>
TplMultiRoot ==
    << TemplateNode("div", <<>>, 0, <<2>>, NoCond),
       TemplateNode("p", <<>>, 1, <<>>, NoCond),
       TemplateNode("p", <<"lead", "w">>, 0, <<>>, NoCond),
       TemplateNode("h2", <<>>, 0, <<>>, NoCond) >>
\* <div><div v-if><p/></div><div v-else><p/></div><p class="lead"/></div>
TplBranches ==
    << TemplateNode("div", <<>>, 0, <<2, 4, 6>>, NoCond),
       TemplateNode("div", <<>>, 1, <<3>>, Conditional(1, 0)),
       TemplateNode("p", <<>>, 2, <<>>, NoCond),
       TemplateNode("div", <<>>, 1, <<5>>, Conditional(1, 1)),
       TemplateNode("p", <<>>, 4, <<>>, NoCond),
       TemplateNode("p", <<"lead">>, 1, <<>>, NoCond) >>
Templates == Families \cup {TplDeep, TplSpans, TplMultiRoot, TplBranches}

\* a rule without children whose selector has no comma
Rule1(selector, classes) == MatchRule(<<selector>>, classes, <<>>)

\* `x + y` and `x ~ y`
SiblingSelector(x, c, y) == <<SelTag(x), Combinator(c), SelTag(y)>>
SiblingSheets ==
    { <<Rule1(SiblingSelector(x, c, y), <<"M">>)>> : x \in KidTags, c \in {"+", "~"}, y \in KidTags }

StructuralPseudos ==
    { Pseudo(":first-child"), Pseudo(":last-child"), Pseudo(":only-child"),
      Pseudo(":first-of-type"), Pseudo(":last-of-type"), Pseudo(":only-of-type"),
      Pseudo(":root"), Pseudo(":empty"), Pseudo(":hover"), Pseudo(":unknown"),
      PseudoNth(":nth-child", <<"2">>), PseudoNth(":nth-child", <<>>),
      PseudoNth(":nth-last-child", <<"1">>),
      PseudoNth(":nth-of-type", <<"o", "d", "d">>), PseudoNth(":nth-last-of-type", <<"2">>) }
StructuralSheets == { <<Rule1(<<SelTag("p"), ps>>, <<"M">>)>> : ps \in StructuralPseudos }

\* the inner selector lists of :is(), :where() and :not()
InnerLists ==
    { << <<SelTag("div"), Combinator(">"), SelTag("span")>> >>,
      << <<SelTag("div"), Combinator(" "), SelTag("span")>> >>,
      << <<SelTag("div"), Combinator(">"), SelTag("p"), Combinator(">"), SelTag("span")>> >>,
      << <<SelTag("div"), Combinator(" "), SelTag("div"), Combinator(" "), SelTag("p")>> >>,
      << <<SelTag("h2"), Combinator("+"), SelTag("p")>> >>,
      << <<SelTag("h2"), Combinator("~"), SelTag("p")>> >>,
      << <<SelTag("p"), Combinator("~"), SelTag("h2"), Combinator("+"), SelTag("p")>> >>,
      << <<SelTag("h2")>>, <<SelTag("div"), Combinator(">"), SelTag("p")>> >>,
      << <<SelTag("p")>> >> }
FunctionalSelector(f, S) == <<PseudoFn(f, S)>>
FunctionalSheets ==
    { <<Rule1(FunctionalSelector(f, S), <<"M">>)>> : f \in {":is", ":where", ":not"}, S \in InnerLists }

HasSheets ==
    { <<Rule1(<<SelTag("div"), PseudoFn(":has", <<inner>>)>>, <<"M">>)>> :
        inner \in { <<Combinator(">"), SelTag("p")>>, <<SelTag("span")>>,
                    <<Combinator("+"), SelTag("div")>>, <<Combinator("~"), SelTag("p")>>,
                    <<Combinator(">"), SelTag("h2"), Combinator("+"), SelTag("p")>> } }

\* div { a  div { b }  p { c } }  p { d }
ShNested ==
    << MatchRule(<< <<SelTag("div")>> >>, <<"a">>,
                 << Rule1(<<SelTag("div")>>, <<"b">>), Rule1(<<SelTag("p")>>, <<"c">>) >>),
       Rule1(<<SelTag("p")>>, <<"d">>) >>
\* * { a  * { b } }
ShStar ==
    << MatchRule(<< <<SelUniversal>> >>, <<"a">>, << Rule1(<<SelUniversal>>, <<"b">>) >>) >>
\* div { a  & { x } }
ShAmp ==
    << MatchRule(<< <<SelTag("div")>> >>, <<"a">>, << Rule1(<<SelNesting>>, <<"x">>) >>) >>
\* & { r  > p { k }  & { x } }
ShAmpTop ==
    << MatchRule(<< <<SelNesting>> >>, <<"r">>,
                 << Rule1(<<Combinator(">"), SelTag("p")>>, <<"k">>), Rule1(<<SelNesting>>, <<"x">>) >>) >>
\* & { > p { w f }  p { w s } }
ShDup ==
    << MatchRule(<< <<SelNesting>> >>, <<>>,
                 << Rule1(<<Combinator(">"), SelTag("p")>>, <<"w", "f">>),
                    Rule1(<<SelTag("p")>>, <<"w", "s">>) >>) >>
\* div { p { w } }  .lead, p { w v }
ShDupNested ==
    << MatchRule(<< <<SelTag("div")>> >>, <<>>, << Rule1(<<SelTag("p")>>, <<"w">>) >>),
       MatchRule(<< <<SelClass("lead")>>, <<SelTag("p")>> >>, <<"w", "v">>, <<>>) >>
\* + p { q }  ~ p { q }
ShLeading ==
    << Rule1(<<Combinator("+"), SelTag("p")>>, <<"q">>),
       Rule1(<<Combinator("~"), SelTag("p")>>, <<"q">>) >>
NestedSheets == {ShNested, ShStar, ShAmp, ShAmpTop, ShDup, ShDupNested, ShLeading}

Sheets == SiblingSheets \cup StructuralSheets \cup FunctionalSheets \cup HasSheets \cup NestedSheets

\* arguments of :nth-child() with what they denote: positions a*k + b, k >= 0, or nothing
\* the evaluator can read
NthArg(text, parsable, a, b) == [text |-> text, parsable |-> parsable, a |-> a, b |-> b]
NthArgs ==
    { NthArg(<<"o", "d", "d">>, TRUE, 2, 1),
      NthArg(<<"e", "v", "e", "n">>, TRUE, 2, 0),
      NthArg(<<" ", "O", "d", "D", " ">>, TRUE, 2, 1),
      NthArg(<<"2", "n", "+", "1">>, TRUE, 2, 1),
      NthArg(<<"2", "N", " ", "+", " ", "1">>, TRUE, 2, 1),
      NthArg(<<"3">>, TRUE, 0, 3),
      NthArg(<<"1", "0">>, TRUE, 0, 10),
      NthArg(<<"-", "n", "+", "3">>, TRUE, 0 - 1, 3),
      NthArg(<<"n">>, TRUE, 1, 0),
      NthArg(<<"n", "+", "4">>, TRUE, 1, 4),
      NthArg(<<"3", "n">>, TRUE, 3, 0),
      NthArg(<<"3", "n", "-", "1">>, TRUE, 3, 0 - 1),
      NthArg(<<"3", "n", "-", "4">>, TRUE, 3, 0 - 4),
      NthArg(<<"-", "2", "n", "+", "7">>, TRUE, 0 - 2, 7),
      NthArg(<<"-", "n", "-", "1">>, TRUE, 0 - 1, 0 - 1),
      NthArg(<<"0", "n", "+", "2">>, TRUE, 0, 2),
      NthArg(<<"1", "2", "n", "+", "1", "1">>, TRUE, 12, 11),
      NthArg(<<"0">>, TRUE, 0, 0),
      NthArg(<<"-", "2">>, TRUE, 0, 0 - 2),
      NthArg(<<"f", "o", "o">>, FALSE, 0, 0),
      NthArg(<<"2", "n", "+">>, FALSE, 0, 0),
      NthArg(<<"2", "n", "+", "1", " ", "o", "f", " ", "p">>, FALSE, 0, 0),
      NthArg(<<"n", "n">>, FALSE, 0, 0),
      NthArg(<<"2", " ", "n">>, FALSE, 0, 0) }
MaxPos == 12

(***************************************************************************)
(* Specifications of the matcher                                           *)
(***************************************************************************)
\* phases 1 and 2 of one forwardTransform on a template and its resolved rules
MatchInit ==
    /\ ResolverIdle /\ ParserIdle
    /\ tpl \in Templates
    /\ sheet \in Sheets
    /\ classMap = [el \in 1..Len(tpl) |-> <<>>]
    /\ applied = [el \in 1..Len(tpl) |-> tpl[el].classes]
    /\ mpc = <<"collect", 1>>
    /\ nth = [expr |-> <<>>, pos |-> 0, done |-> FALSE, result |-> FALSE]

MatchNext == CollectRule \/ ApplyClasses

MatchSpec == MatchInit /\ [][MatchNext]_vars

\* evaluations of :nth-*() arguments at the positions 1..MaxPos
NthInit ==
    /\ ResolverIdle /\ ParserIdle
    /\ tpl = <<>> /\ sheet = <<>> /\ classMap = <<>> /\ applied = <<>>
    /\ mpc = <<"idle", 0>>
    /\ \E arg \in NthArgs : \E pos \in 1..MaxPos :
           nth = [expr |-> arg.text, pos |-> pos, done |-> FALSE, result |-> FALSE]

NthNext == EvalNth

NthSpec == NthInit /\ [][NthNext]_vars

(***************************************************************************)
(* Inputs and specification of the parser                                  *)
(***************************************************************************)
MaxLines == 3
Digit(i) == <<"1", "2", "3", "4", "5", "6", "7", "8", "9">>[i]
\* the i-th line of a body, by its kind
ClassWord(i) == <<"c", Digit(i)>>
SecondWord(i) == <<"k", Digit(i)>>
DeclLine(i) == <<"d", Digit(i), ":", " ", "v", ";">>
ChildRule(i) ==
    <<">", " ", "s", "{", NL>> \o <<"x", Digit(i), NL>> \o <<"y", Digit(i), ":", "v", ";", NL>> \o <<"}">>
LineKinds == {"class", "classes", "decl", "child"}
LineText(kind, i) ==
    CASE kind = "class" -> ClassWord(i)
      [] kind = "classes" -> ClassWord(i) \o <<" ">> \o SecondWord(i)
      [] kind = "decl" -> DeclLine(i)
      [] kind = "child" -> ChildRule(i)
\* what stands between two lines: a line break, alone or with a block comment around it
JointKinds == {"newline", "comment line", "trailing comment", "spanning comment"}
JointText(kind) ==
    CASE kind = "newline" -> <<NL, " ">>
      [] kind = "comment line" -> <<NL, "/", "*", "n", "*", "/", NL>>
      [] kind = "trailing comment" -> <<" ", "/", "*", "n", "*", "/", NL>>
      [] kind = "spanning comment" -> <<" ", "/", "*", "n", NL, "m", "*", "/", " ">>

Made(lines, joints) == [lines |-> lines, joints |-> joints]
Mades ==
    UNION { { Made(lines, joints) : lines \in [1..n -> LineKinds], joints \in [1..(n - 1) -> JointKinds] } :
              n \in 1..MaxLines }

RECURSIVE BodyText(_, _)
BodyText(m, i) ==
    IF i > Len(m.lines) THEN <<>>
    ELSE LineText(m.lines[i], i)
         \o (IF i < Len(m.lines) THEN JointText(m.joints[i]) ELSE <<>>)
         \o BodyText(m, i + 1)
\* & { <body> }
RuleText(m) == <<"&", "{", NL>> \o BodyText(m, 1) \o <<NL, "}">>

ParseInit ==
    /\ ResolverIdle /\ MatcherIdle
    /\ made \in Mades
    /\ styleSrc = RuleText(made)
    /\ parsed = [done |-> FALSE, body |-> Body(<<>>, <<>>, <<>>, <<>>)]

ParseNext == ParseRuleBody

ParseSpec == ParseInit /\ [][ParseNext]_vars

(***************************************************************************)
(* Vocabulary of the properties                                            *)
(***************************************************************************)
Range(f) == {f[i] : i \in DOMAIN f}

Reach(h, id) == IF id = 0 THEN {} ELSE Closure(h, {id}, Len(h))

\* the rules of the running unit: everything under the holder of result.rules
RuleTree(h) == Reach(h, root.rules) \ {root.rules}

RECURSIVE Concat(_)
Concat(ss) == IF ss = <<>> THEN <<>> ELSE Head(ss) \o Concat(Tail(ss))

IsPrefix(a, b) == Len(a) <= Len(b) /\ SubSeq(b, 1, Len(a)) = a

RECURSIVE SourcePairs(_, _, _)
\* <<object id, source block>> for the blocks written in the unit: the i-th child written
\* in the source is the i-th child of its object (inlined copies are appended behind)
SourcePairs(h, ids, srcs) ==
    UNION { {<<ids[i], srcs[i]>>} \cup SourcePairs(h, h[ids[i]].children, srcs[i].children)
            : i \in 1..Len(srcs) }

SourceRules == IF root.rules = 0 THEN {} ELSE SourcePairs(heap, heap[root.rules].children, unit.rules)
SourceExports == {<<root.exports[i], unit.exports[i]>> : i \in 1..Len(root.exports)}

\* the exports a file offers once loaded ([] for a file that could not be read)
Loaded(path) == IF Cached(path) = NotCached THEN <<>> ELSE Cached(path)

\* the last local export called `name`, 0 if there is none
LastLocal(name) ==
    IF \E i \in 1..Len(root.exports) : heap[root.exports[i]].sel = name
    THEN root.exports[CHOOSE i \in 1..Len(root.exports) :
                          /\ heap[root.exports[i]].sel = name
                          /\ \A j \in (i + 1)..Len(root.exports) : heap[root.exports[j]].sel # name]
    ELSE 0

\* the imports that bring `name` in: the file is readable and exports it
Importing(name) ==
    {i \in 1..Len(unit.imports) :
        /\ name \in Range(unit.imports[i].names)
        /\ FindExport(heap, Loaded(unit.imports[i].from), name) # 0}

\* the block a directive of the unit names, 0 if the directive fails
Target(use) ==
    IF use.from # NoFrom THEN FindExport(heap, Loaded(use.from), use.name)
    ELSE IF Importing(use.name) # {}
    THEN LET i == CHOOSE i \in Importing(use.name) : \A j \in Importing(use.name) : j <= i
         IN FindExport(heap, Loaded(unit.imports[i].from), use.name)
    ELSE LastLocal(use.name)

\* the @use graph among the exports of a unit: n -> t when export n holds `@use t`
UsesOf(u, n) ==
    {l.v : l \in UNION {{b.body[j] : j \in {j \in 1..Len(b.body) : b.body[j].k = "use" /\ b.body[j].from = NoFrom}}
                        : b \in {u.exports[i] : i \in {i \in 1..Len(u.exports) : u.exports[i].sel = n}}}}

ExportNamesOf(u) == {u.exports[i].sel : i \in 1..Len(u.exports)}

RECURSIVE UseClosure(_, _, _)
UseClosure(u, S, n) ==
    IF n = 0 THEN S
    ELSE UseClosure(u, S \cup (UNION {UsesOf(u, m) : m \in S} \cap ExportNamesOf(u)), n - 1)

\* the exports reachable from export n by one or more @use
UsedBy(u, n) == UseClosure(u, UsesOf(u, n) \cap ExportNamesOf(u), Len(u.exports))
HasUseCycle(u) == \E n \in ExportNamesOf(u) : n \in UsedBy(u, n)
Warned(kind) == \E i \in 1..Len(warnings) : warnings[i].kind = kind
WarnedOf(kinds, name) == \E i \in 1..Len(warnings) : warnings[i].kind \in kinds /\ warnings[i].name = name

\* the unit is one of those whose directives all stay inside the unit
LocalOnly(u) == u \in GraphUnits \cup {TwoSites, UseOrder, Resolved}

(***************************************************************************)
(* C1  Resolution of @use terminates on every unit whose @use references   *)
(* form a cycle: no run of resolveDirectives on a unit whose directives    *)
(* stay inside the unit ends by exhausting the heap or the call stack.     *)
(***************************************************************************)
C1_LocalResolutionTerminates ==
    LocalOnly(unit) => phase # "exhausted"

(***************************************************************************)
(* C2  When the @use graph among the exports has a cycle, the finished     *)
(* resolution has emitted at least one "Circular @use" warning and has     *)
(* left no @use unresolved.                                                *)
(***************************************************************************)
C2_CycleIsWarned ==
    (phase = "done" /\ LocalOnly(unit) /\ HasUseCycle(unit))
        => /\ Warned("circular")
           /\ \A id \in RuleTree(heap) : heap[id].uses = <<>>

(***************************************************************************)
(* C3  Loading exports terminates when file-qualified uses are circular    *)
(* across files: the transform of a consumer of A (a @use b from B) and    *)
(* B (b @use a from A) does not recurse through extractExportsFromFile     *)
(* until the call stack is exhausted.                                      *)
(***************************************************************************)
C3_CrossFileLoadTerminates ==
    unit = CrossFile => ~(phase = "exhausted" /\ \E i \in 1..Len(stack) : stack[i].fn = "EEF")

(***************************************************************************)
(* C4  After resolveDirectives returns, every StyleRule reachable from the *)
(* returned rules, copies inlined from exports included, has empty `uses`. *)
(***************************************************************************)
C4_UsesEmptyAfterResolution ==
    phase = "done" => \A id \in RuleTree(heap) : heap[id].uses = <<>>

\* a finished run whose rule tree holds the copy of an export's grandchild rule that
\* was written with a @use, next to the export's own (resolved) one
C4_Witness ==
    /\ phase = "done" /\ pass = 1 /\ unit = TwoSites
    /\ Cardinality({id \in RuleTree(heap) : heap[id].sel = ".g" /\ heap[id].classes = <<"G", "B">>}) = 2

(***************************************************************************)
(* C5  Exports compose transitively whatever their definition order: when  *)
(* the @use graph of the exports is acyclic, a rule that @uses export a    *)
(* ends up with the classes and declarations of every export a reaches.    *)
(***************************************************************************)
C5_TransitiveComposition ==
    (phase = "done" /\ unit \in GraphUnits /\ ~HasUseCycle(unit))
        => \A pr \in SourceRules :
             \A n \in {"a"} \cup UsedBy(unit, "a") :
                /\ OwnClass[n] \in Range(heap[pr[1]].classes)
                /\ OwnDecl[n] \in Range(heap[pr[1]].declarations)

(***************************************************************************)
(* C6  Inlining a @use keeps the holder's own classes and declarations     *)
(* first and appends the used block's behind them, in the order of the     *)
(* @use directives, wherever the @use lines stand in the body: the step    *)
(* that inlines the u-th @use appends the block's lists to the holder's,   *)
(* no other step changes the classes or declarations of any object, and a  *)
(* finished rule holds its own lists followed by those of the blocks its   *)
(* directives name, in directive order.                                    *)
(***************************************************************************)
Inlining == InUseLoop("use") \/ InUseLoop("loaded")

C6_Step ==
    /\ \A id \in 1..Len(heap) :
          \/ heap'[id].classes = heap[id].classes /\ heap'[id].declarations = heap[id].declarations
          \/ /\ Inlining /\ id = Holder(Top)
             /\ stack'[Len(stack)].pc = "clone" /\ stack'[Len(stack)].u = Top.u
             /\ LET b == stack'[Len(stack)].blk
                IN /\ heap'[id].classes = heap[id].classes \o heap[b].classes
                   /\ heap'[id].declarations = heap[id].declarations \o heap[b].declarations
    /\ (Inlining /\ HasUse /\ Len(stack') = Len(stack)) => stack'[Len(stack)].u \in {Top.u, Top.u + 1}

UsedLists(uses, field(_)) ==
    Concat([i \in 1..Len(uses) |-> IF Target(uses[i]) = 0 THEN <<>> ELSE field(heap[Target(uses[i])])])

C6_Final ==
    (phase = "done" /\ pass = 1) =>
        \A pr \in SourceRules :
            LET ClassesOf(o) == o.classes
                DeclarationsOf(o) == o.declarations
            IN /\ heap[pr[1]].classes = BodyClasses(pr[2].body) \o UsedLists(BodyUses(pr[2].body), ClassesOf)
               /\ heap[pr[1]].declarations = BodyDeclarations(pr[2].body) \o UsedLists(BodyUses(pr[2].body), DeclarationsOf)

C6_OwnFirstThenUsedInOrder == []C6_Final /\ [][phase = "running" => C6_Step]_vars

\* the rule `@use b; R; r; @use a; S; @use z; s;` resolved: R S, then b's, then a's lists
C6_Witness ==
    /\ phase = "done" /\ unit = UseOrder
    /\ \E pr \in SourceRules : heap[pr[1]].classes = <<"R", "S", "B", "A", "C2", "B">>

(***************************************************************************)
(* C7  Each @use site owns independent copies of the used export's child   *)
(* rules: no StyleRule object is held by two owners or twice by one, and   *)
(* no export block is the child of a rule.                                 *)
(***************************************************************************)
HoldersOf(h, id) == {pk \in UNION {{<<p, k>> : k \in 1..Len(h[p].children)} : p \in 1..Len(h)} :
                        h[pk[1]].children[pk[2]] = id}

C7_NoSharedRule ==
    \A id \in 1..Len(heap) :
        /\ Cardinality(HoldersOf(heap, id)) <= 1
        /\ id \in Range(root.exports) => HoldersOf(heap, id) = {}

\* two sites have inlined export a: each holds its own copy of .k and of .g below it
C7_Witness ==
    /\ phase = "done" /\ unit = TwoSites
    /\ Cardinality({id \in RuleTree(heap) : heap[id].sel = ".k"}) = 2
    /\ Cardinality({id \in RuleTree(heap) : heap[id].sel = ".g"}) = 2

(***************************************************************************)
(* C8  Re-resolving a resolved rule tree (every `uses` list empty) leaves  *)
(* it unchanged: no step of the resolver changes any rule of a tree whose  *)
(* `uses` lists are all empty.                                             *)
(***************************************************************************)
C8_ResolvedTreeUnchanged ==
    [][(phase = "running" /\ \A id \in RuleTree(heap) : heap[id].uses = <<>>)
          => /\ RuleTree(heap') = RuleTree(heap)
             /\ \A id \in RuleTree(heap) : heap'[id] = heap[id]]_vars

\* resolveDirectives has run a second time over the tree it had resolved
C8_Witness ==
    /\ phase = "done" /\ pass = 2 /\ unit = TwoSites
    /\ \A id \in RuleTree(heap) : heap[id].uses = <<>>

(***************************************************************************)
(* C9  A failing directive is skipped and nothing else: a @use of an       *)
(* undefined name, a @use or @import from an unreadable file and a name    *)
(* the file does not export are each warned about; the holder keeps its    *)
(* own classes, declarations and children, extended only by what its       *)
(* other directives inline; every directive of the unit is consumed.       *)
(***************************************************************************)
Fails(use) == Target(use) = 0
Unreadable(path) == files[path].kind = "missing"

UsedChildren(uses) ==
    Concat([i \in 1..Len(uses) |-> IF Fails(uses[i]) THEN <<>> ELSE heap[Target(uses[i])].children])

C9_FailingDirectiveSkipped ==
    (phase = "done" /\ pass = 1) =>
        /\ \A pr \in SourceRules :
              LET uses == BodyUses(pr[2].body)
                  ClassesOf(o) == o.classes
              IN /\ \A i \in 1..Len(uses) :
                       Fails(uses[i]) =>
                          /\ WarnedOf({"undefined", "notfound"}, uses[i].name)
                          /\ (uses[i].from # NoFrom /\ Unreadable(uses[i].from))
                                => WarnedOf({"unreadable"}, uses[i].from)
                 /\ heap[pr[1]].classes = BodyClasses(pr[2].body) \o UsedLists(uses, ClassesOf)
                 /\ Len(heap[pr[1]].children) = Len(pr[2].children) + Len(UsedChildren(uses))
                 /\ (\A i \in 1..Len(uses) : Fails(uses[i])) =>
                       /\ heap[pr[1]].classes = BodyClasses(pr[2].body)
                       /\ heap[pr[1]].declarations = BodyDeclarations(pr[2].body)
                       /\ Len(heap[pr[1]].children) = Len(pr[2].children)
        /\ \A pr \in SourceExports :
              LET uses == BodyUses(pr[2].body)
              IN (uses # <<>> /\ \A i \in 1..Len(uses) : Fails(uses[i])) =>
                    /\ \A i \in 1..Len(uses) : WarnedOf({"undefined", "notfound"}, uses[i].name)
                    /\ heap[pr[1]].classes = BodyClasses(pr[2].body)
                    /\ heap[pr[1]].declarations = BodyDeclarations(pr[2].body)
                    /\ Len(heap[pr[1]].children) = Len(pr[2].children)
        /\ \A i \in 1..Len(unit.imports) :
              \A n \in Range(unit.imports[i].names) :
                 FindExport(heap, Loaded(unit.imports[i].from), n) = 0
                    => /\ WarnedOf({"import-notfound"}, n)
                       /\ Unreadable(unit.imports[i].from) => WarnedOf({"unreadable"}, unit.imports[i].from)
        /\ \A id \in RuleTree(heap) \cup Range(root.exports) : heap[id].uses = <<>>

\* the unit with a missing file, a file without style block, unexported and undefined
\* names has been resolved: each rule holds what its working directives brought in
C9_Witness ==
    /\ phase = "done" /\ pass = 1 /\ unit = FileUnit
    /\ \E pr \in SourceRules : pr[2].sel = "&" /\ heap[pr[1]].classes = <<"R", "Y", "X">>
    /\ \E pr \in SourceRules : pr[2].sel = ".m" /\ heap[pr[1]].classes = <<"M", "Y", "X">>
    /\ \E pr \in SourceRules : pr[2].sel = ".t" /\ heap[pr[1]].classes = <<"T", "X0", "X">>
    /\ Len(warnings) = 8

(***************************************************************************)
(* C10  Within one TransformState the exports loaded for a path stay what  *)
(* they are, whatever happens to the file, until clearExportsCache drops   *)
(* the entry of that state: a load that finds the entry returns it and     *)
(* reads nothing; no step but a clearExportsCache on the state removes or  *)
(* replaces the blocks of an entry; and a load that stores an entry, the   *)
(* first load after a clear included, stores the exports of the file as it *)
(* is on disk at that moment.                                              *)
(***************************************************************************)
RECURSIVE DeepRule(_, _, _)
\* the value of the rule `id`: its fields, with the values of its children (n levels)
DeepRule(h, id, n) ==
    [sel |-> h[id].sel, classes |-> h[id].classes, declarations |-> h[id].declarations,
     uses |-> h[id].uses,
     children |-> IF n = 0 THEN <<>>
                  ELSE [k \in 1..Len(h[id].children) |-> DeepRule(h, h[id].children[k], n - 1)]]

\* the blocks a cache entry holds
BlocksOf(h, entry) ==
    IF entry = NotCached THEN <<>>
    ELSE [i \in 1..Len(entry) |-> DeepRule(h, entry[i], Len(h))]

\* the blocks reflect the file: its exports, by name and in order, each with its own
\* classes and declarations first and no directive left
Reflects(blocks, file) ==
    /\ file.kind # "missing"
    /\ Len(blocks) = Len(file.exports)
    /\ \A i \in 1..Len(blocks) :
          /\ blocks[i].sel = file.exports[i].sel
          /\ IsPrefix(BodyClasses(file.exports[i].body), blocks[i].classes)
          /\ IsPrefix(BodyDeclarations(file.exports[i].body), blocks[i].declarations)
          /\ blocks[i].uses = <<>>

ClearStep(s) ==
    /\ phase = "idle" /\ phase' = "idle"
    /\ files' = files /\ heap' = heap
    /\ \A t \in StateIds \ {s} : exportsCache'[t] = exportsCache[t]

C10_Step ==
    /\ \A s \in StateIds : \A p \in Paths :
          LET before == exportsCache[s][p]
              after == exportsCache'[s][p]
          IN /\ before # NotCached =>
                   \/ /\ after # NotCached
                      /\ BlocksOf(heap', after) = BlocksOf(heap, before)
                      /\ phase' # "idle" => after = before
                   \/ after = NotCached /\ ClearStep(s)
             /\ (before = NotCached /\ after # NotCached) =>
                   /\ Running("EEF", "enter") \/ Running("EEF", "resolve")
                   /\ s = cur /\ p = Top.path
                   /\ ret' = after
                   /\ Reflects(BlocksOf(heap', after), files[p])
    /\ (Running("EEF", "enter") /\ exportsCache[cur][Top.path] # NotCached) =>
          /\ ret' = exportsCache[cur][Top.path]
          /\ Len(stack') = Len(stack) - 1
          /\ heap' = heap /\ exportsCache' = exportsCache /\ warnings' = warnings

Untouched(t) ==
    /\ importDeps'[t] = importDeps[t]
    /\ \A p \in Paths :
          /\ exportsCache'[t][p] = NotCached <=> exportsCache[t][p] = NotCached
          /\ BlocksOf(heap', exportsCache'[t][p]) = BlocksOf(heap, exportsCache[t][p])

C11_Step ==
    /\ phase # "idle" => \A t \in StateIds \ {cur} : Untouched(t)
    /\ (phase = "idle" /\ phase' # "idle") => \A t \in StateIds \ {cur'} : Untouched(t)
    /\ (phase = "idle" /\ phase' = "idle") => \E s \in StateIds : \A t \in StateIds \ {s} : Untouched(t)

C11_StatesIsolated == [][C11_Step]_vars

\* a transform in state s1 has loaded L and stored its dependencies, while state s2
\* holds what its own earlier transforms left: its cache entry and other dependencies
C11_Witness ==
    /\ phase = "done" /\ cur = "s1" /\ unit = UseLib
    /\ exportsCache["s1"]["L"] # NotCached /\ exportsCache["s1"]["T"] = NotCached
    /\ exportsCache["s2"]["T"] # NotCached
    /\ importDeps["s1"] = [c \in ConsumerPaths |-> IF c = ConsumerPath THEN {"L"} ELSE {}]
    /\ importDeps["s2"] = [c \in ConsumerPaths |-> IF c = ConsumerPath THEN {} ELSE {"L", "T", "N"}]

(***************************************************************************)
(* C12  getImportDependents(P) returns exactly the consumers whose most    *)
(* recent transform referenced P: when a forwardTransform of a consumer    *)
(* has returned, the consumer is among the dependents of P in that state   *)
(* exactly when the transformed code references P by an @import or a       *)
(* from-qualified @use.                                                    *)
(***************************************************************************)
RECURSIVE BlockReferences(_)
\* the files a block names in `@use ... from`, nested rules included
BlockReferences(b) ==
    {b.body[j].from : j \in {j \in 1..Len(b.body) : b.body[j].k = "use" /\ b.body[j].from # NoFrom}}
        \cup UNION {BlockReferences(b.children[k]) : k \in 1..Len(b.children)}

References(u) ==
    {u.imports[i].from : i \in 1..Len(u.imports)}
        \cup UNION {BlockReferences(u.rules[i]) : i \in 1..Len(u.rules)}
        \cup UNION {BlockReferences(u.exports[i]) : i \in 1..Len(u.exports)}

C12_DependentsExact ==
    phase = "done" =>
        \A P \in Paths : unit.path \in getImportDependents(P, cur) <=> P \in References(unit)

(***************************************************************************)
(* Vocabulary of the matcher properties                                    *)
(***************************************************************************)
Nodes == 1..Len(tpl)
Matched == mpc[1] = "done"
\* the nodes phase 1 gave the class c
Marked(c) == {n \in Nodes : \E i \in 1..Len(classMap[n]) : classMap[n][i] = c}
\* two nodes in different branches of one v-if chain
Alternatives(a, b) ==
    /\ tpl[a].conditional # NoCond /\ tpl[b].conditional # NoCond
    /\ tpl[a].conditional[1] = tpl[b].conditional[1]
    /\ tpl[a].conditional[2] # tpl[b].conditional[2]
\* position of a node among the children of its parent (0 for a root)
ChildIndex(n) ==
    IF tpl[n].parent = 0 THEN 0
    ELSE CHOOSE i \in 1..Len(tpl[tpl[n].parent].children) : tpl[tpl[n].parent].children[i] = n
\* m is a later child of the parent of n
Follows(n, m) ==
    /\ tpl[n].parent # 0 /\ tpl[m].parent = tpl[n].parent
    /\ ChildIndex(n) < ChildIndex(m)
\* m is the first child behind n that is no conditional alternative of n
FirstCoexisting(n, m) ==
    /\ Follows(n, m) /\ ~Alternatives(n, m)
    /\ \A k \in Nodes : Follows(n, k) /\ Follows(k, m) => Alternatives(n, k)
TheSheet(selector) == sheet = <<Rule1(selector, <<"M">>)>>

(***************************************************************************)
(* C13  Sibling combinators never cross conditional alternatives: `x + y`  *)
(* marks only nodes that are the first following sibling, alternatives of  *)
(* the anchor skipped, of an x; `x ~ y` only following siblings that are   *)
(* no alternatives of an x anchor (and, under a common parent, all of      *)
(* them); and a node is :first-child exactly when every sibling before it  *)
(* is one of its alternatives.                                             *)
(***************************************************************************)
C13_SiblingsSkipAlternatives ==
    Matched =>
        /\ \A x \in KidTags, y \in KidTags :
              /\ TheSheet(SiblingSelector(x, "+", y)) =>
                    \A m \in Nodes :
                        m \in Marked("M") <=>
                            /\ tpl[m].tag = y
                            /\ \E n \in Nodes : tpl[n].tag = x /\ FirstCoexisting(n, m)
              /\ TheSheet(SiblingSelector(x, "~", y)) =>
                    \A m \in Nodes :
                        m \in Marked("M") <=>
                            /\ tpl[m].tag = y
                            /\ \E n \in Nodes :
                                   tpl[n].tag = x /\ Follows(n, m) /\ ~Alternatives(n, m)
        /\ TheSheet(<<SelTag("p"), Pseudo(":first-child")>>) =>
              \A m \in Nodes :
                  m \in Marked("M") <=>
                      /\ tpl[m].tag = "p"
                      /\ \A k \in Nodes : Follows(k, m) => Alternatives(k, m)

\* [A(chain 1, branch 0), B(chain 1, branch 1), C]: `A + C` has matched C and nothing else
C13_Witness ==
    /\ Matched
    /\ tpl = Family(<< <<"h2", Conditional(1, 0)>>, <<"p", Conditional(1, 1)>>, <<"p", NoCond>> >>)
    /\ TheSheet(SiblingSelector("h2", "+", "p"))
    /\ Marked("M") = {4}

(***************************************************************************)
(* C14  Conditional alternatives are excluded from sibling counts: the     *)
(* sibling list the structural pseudo-classes are evaluated on never holds *)
(* two alternatives of each other, whether the node is conditional or not, *)
(* and `p:nth-child(2)` marks exactly the p nodes that stand second among  *)
(* the siblings present at run time (one per v-if chain).                  *)
(***************************************************************************)
\* what stands at a position of the rendered children: a node, or one branch of a chain
Slot(k) ==
    IF tpl[k].conditional = NoCond THEN <<"node", k>> ELSE <<"chain", tpl[k].conditional[1]>>
\* 1-based position of m among the siblings that are present together with it
RuntimePosition(m) == 1 + Cardinality({Slot(k) : k \in {j \in Nodes : Follows(j, m) /\ Slot(j) # Slot(m)}})

C14_AlternativesNotCounted ==
    Matched =>
        /\ \A n \in Nodes :
              LET siblings == getRuntimeSiblings(n) IN
              \A i \in 1..Len(siblings), j \in 1..Len(siblings) :
                  ~Alternatives(siblings[i], siblings[j])
        /\ TheSheet(<<SelTag("p"), PseudoNth(":nth-child", <<"2">>)>>) =>
              \A m \in Nodes : m \in Marked("M") <=> tpl[m].tag = "p" /\ RuntimePosition(m) = 2

(***************************************************************************)
(* C15  Class accumulation follows depth-first rule order: on every node,  *)
(* the classes of a rule stand before the classes of every rule that comes *)
(* later in the pre-order of the rule tree, child rules of a rule that     *)
(* matches nested nodes included.                                          *)
(***************************************************************************)
\* the class lists of the rules of a tree, in depth-first (pre-order) source order
RECURSIVE PreOrder(_)
PreOrder(rules) ==
    IF rules = <<>> THEN <<>>
    ELSE <<Head(rules).classes>> \o PreOrder(Head(rules).children) \o PreOrder(Tail(rules))
\* no class is contributed by two rules, so that a class names its rule
ClassesNameRules(order) ==
    \A i \in 1..Len(order), j \in 1..Len(order) : i # j => Range(order[i]) \cap Range(order[j]) = {}

C15_DepthFirstOrder ==
    Matched =>
        LET order == PreOrder(sheet) IN
        ClassesNameRules(order) =>
            \A n \in Nodes : \A i \in 1..Len(order), j \in 1..Len(order) :
                i < j =>
                    \A p \in 1..Len(classMap[n]), q \in 1..Len(classMap[n]) :
                        classMap[n][p] \in Range(order[i]) /\ classMap[n][q] \in Range(order[j])
                            => p < q

(***************************************************************************)
(* C16  Duplicate classes are deduplicated with the first occurrence kept: *)
(* the classes phase 2 adds to an element are the classes the rules        *)
(* contributed to it, each once, ordered by their first contribution,      *)
(* whether the repetitions come from several rules or from one nested rule *)
(* reached through several matched ancestors.                              *)
(***************************************************************************)
\* the classes addClasses put behind the static classes of the element
Added(el) == SubSeq(applied[el], Len(tpl[el].classes) + 1, Len(applied[el]))
FirstContribution(el, c) == CHOOSE i \in 1..Len(classMap[el]) :
    classMap[el][i] = c /\ \A j \in 1..(i - 1) : classMap[el][j] # c

C16_FirstOccurrenceKept ==
    Matched =>
        \A el \in Nodes :
            /\ Range(Added(el)) = Range(classMap[el])
            /\ \A i \in 1..Len(Added(el)), j \in 1..Len(Added(el)) :
                  i < j =>
                      /\ Added(el)[i] # Added(el)[j]
                      /\ FirstContribution(el, Added(el)[i]) < FirstContribution(el, Added(el)[j])

\* `div { p { w } }  .lead, p { w v }` on nested <div>s: the innermost <p> is reached through
\* three ancestors and by the second rule
C16_Witness ==
    /\ Matched
    /\ tpl = TplDeep /\ sheet = ShDupNested
    /\ classMap[4] = <<"w", "w", "w", "w", "v">>
    /\ applied[4] = <<"w", "v">>

(***************************************************************************)
(* C17  A rule whose selector is `&` matches exactly the elements its      *)
(* enclosing rule matched: its classes land on the nodes that carry the    *)
(* classes of the enclosing rule and on no others; a top-level `&` rule    *)
(* matches exactly the roots of the template, all of them.                 *)
(***************************************************************************)
Roots == {n \in Nodes : tpl[n].parent = 0}

C17_NestingMatchesParent ==
    Matched =>
        \* div { a  & { x } }
        /\ sheet = ShAmp =>
              /\ Marked("a") = {n \in Nodes : tpl[n].tag = "div"}
              /\ Marked("x") = Marked("a")
              /\ \A n \in Marked("x") : classMap[n] = <<"a", "x">>
        \* & { r  > p { k }  & { x } }
        /\ sheet = ShAmpTop =>
              /\ Marked("r") = Roots
              /\ Marked("x") = Roots
              /\ Marked("k") = {n \in Nodes : tpl[n].tag = "p" /\ tpl[n].parent \in Roots}
              /\ \A n \in Roots : classMap[n] = <<"r", "x">>

\* a nested `&` under a rule that matched nested <div>s, each of them once
C17_Witness ==
    /\ Matched
    /\ tpl = TplDeep /\ sheet = ShAmp
    /\ Marked("x") = {1, 2, 3}

\* a top-level `&` on a template with three roots
C17_WitnessRoots ==
    /\ Matched
    /\ tpl = TplMultiRoot /\ sheet = ShAmpTop
    /\ Marked("r") = {1, 3, 4}

(***************************************************************************)
(* C18  matchesAnPlusB(expr, pos) is true for a 1-based position exactly   *)
(* when pos = A*k + B for some integer k >= 0, A and B being what the      *)
(* argument denotes (odd = 2n+1, even = 2n, a number N = 0n+N, An+B, An-B, *)
(* -n+B); an argument that cannot be parsed matches every position.        *)
(***************************************************************************)
\* what the argument under evaluation denotes
Denoted == CHOOSE arg \in NthArgs : arg.text = nth.expr

C18_AnPlusB ==
    nth.done =>
        (nth.result <=>
            \/ ~Denoted.parsable
            \/ \E k \in 0..MaxPos : nth.pos = Denoted.a * k + Denoted.b)

\* `-n+3` has been evaluated at position 3 and matches; it does not match position 4
C18_Witness ==
    /\ nth.done
    /\ nth.expr = <<"-", "n", "+", "3">> /\ nth.pos = 3 /\ nth.result
    /\ ~matchesAnPlusB(nth.expr, 4)
    /\ matchesAnPlusB(<<"2", "n", "+", "1">>, 5) /\ ~matchesAnPlusB(<<"o", "d", "d">>, 6)

(***************************************************************************)
(* C19  A node satisfies :is(S) (and :where(S)) exactly when, for some     *)
(* alternative of S, there are nodes matching its compounds one by one,    *)
(* the last of them the node itself, each linked to the next as the        *)
(* combinator says (child: the parent; descendant: an ancestor; `+`: the   *)
(* sibling just before it in its runtime sibling list; `~`: any sibling    *)
(* before it in that list); a node satisfies :not(S) exactly when it does  *)
(* not satisfy :is(S).                                                     *)
(***************************************************************************)
RECURSIVE Ancestors(_)
Ancestors(n) == IF tpl[n].parent = 0 THEN {} ELSE {tpl[n].parent} \cup Ancestors(tpl[n].parent)
\* a stands before b in the runtime sibling list of b: the children of its parent that
\* are no conditional alternatives of b
Precedes(a, b) == Follows(a, b) /\ ~Alternatives(a, b)
Linked(combinator, a, b) ==
    CASE combinator = ">" -> tpl[b].parent = a
      [] combinator = " " -> a \in Ancestors(b)
      [] combinator = "+" -> Precedes(a, b) /\ ~\E k \in Nodes : Follows(a, k) /\ Precedes(k, b)
      [] combinator = "~" -> Precedes(a, b)
\* selector = tag (combinator tag)*: some chain of nodes ending at n matches it
Satisfies(n, selector) ==
    LET k == (Len(selector) + 1) \div 2 IN
    \E f \in [1..k -> Nodes] :
        /\ f[k] = n
        /\ \A i \in 1..k : tpl[f[i]].tag = selector[2 * i - 1].value
        /\ \A i \in 2..k : Linked(selector[2 * i - 2].value, f[i - 1], f[i])
SatisfiesSome(n, S) == \E alt \in 1..Len(S) : Satisfies(n, S[alt])

C19_IsWhereNot ==
    Matched =>
        \A S \in InnerLists :
            /\ TheSheet(FunctionalSelector(":is", S)) \/ TheSheet(FunctionalSelector(":where", S))
                  => Marked("M") = {n \in Nodes : SatisfiesSome(n, S)}
            /\ TheSheet(FunctionalSelector(":not", S))
                  => Marked("M") = {n \in Nodes : ~SatisfiesSome(n, S)}

\* :is(div > span) on <div><span/><p><span/></p>..</div>: the span under the div only
C19_Witness ==
    /\ Matched
    /\ tpl = TplSpans
    /\ TheSheet(FunctionalSelector(":is", << <<SelTag("div"), Combinator(">"), SelTag("span")>> >>))
    /\ Marked("M") = {2}

(***************************************************************************)
(* C20  A rule body of N utility classes and M declaration lines (lines    *)
(* ending in `;`), interleaved in any order, with block comments and       *)
(* nested child rules between them, parses to exactly those N classes and  *)
(* those M declarations, each list in source order.                        *)
(***************************************************************************)
RECURSIVE ClassesOf(_, _)
ClassesOf(m, i) ==
    IF i > Len(m.lines) THEN <<>>
    ELSE (CASE m.lines[i] = "class" -> <<ClassWord(i)>>
            [] m.lines[i] = "classes" -> <<ClassWord(i), SecondWord(i)>>
            [] OTHER -> <<>>)
         \o ClassesOf(m, i + 1)
RECURSIVE DeclarationsOf(_, _)
DeclarationsOf(m, i) ==
    IF i > Len(m.lines) THEN <<>>
    ELSE (IF m.lines[i] = "decl" THEN <<DeclLine(i)>> ELSE <<>>) \o DeclarationsOf(m, i + 1)

C20_ClassesAndDeclarations ==
    parsed.done =>
        /\ parsed.body.classes = ClassesOf(made, 1)
        /\ parsed.body.declarations = DeclarationsOf(made, 1)

(***************************************************************************)
(* Inputs and specification of the whole forward pipeline: a style block   *)
(* of one rule `& { <class> <child selector> { text-sm } }` is parsed and  *)
(* matched against a template                                              *)
(***************************************************************************)
Tdiv == <<"d", "i", "v">>
Tp == <<"p">>
Tspan == <<"s", "p", "a", "n">>
Wflex == <<"f", "l", "e", "x">>
Wpx == <<"p", "x">>
Wtextsm == <<"t", "e", "x", "t", "-", "s", "m">>
\* [div[p, span]]
TplScenario ==
    << TemplateNode(Tdiv, <<>>, 0, <<2, 3>>, NoCond),
       TemplateNode(Tp, <<>>, 1, <<>>, NoCond),
       TemplateNode(Tspan, <<>>, 1, <<>>, NoCond) >>
\* [div[span[p], p]]
TplScenarioDeep ==
    << TemplateNode(Tdiv, <<>>, 0, <<2, 4>>, NoCond),
       TemplateNode(Tspan, <<>>, 1, <<3>>, NoCond),
       TemplateNode(Tp, <<>>, 2, <<>>, NoCond),
       TemplateNode(Tp, <<>>, 1, <<>>, NoCond) >>
\* [flex[p], p]
TplScenarioFlex ==
    << TemplateNode(Wflex, <<>>, 0, <<2>>, NoCond),
       TemplateNode(Tp, <<>>, 1, <<>>, NoCond),
       TemplateNode(Tp, <<>>, 0, <<>>, NoCond) >>
\* [p, div[px[p]]]
TplScenarioRoots ==
    << TemplateNode(Tp, <<>>, 0, <<>>, NoCond),
       TemplateNode(Tdiv, <<>>, 0, <<3>>, NoCond),
       TemplateNode(Wpx, <<>>, 2, <<4>>, NoCond),
       TemplateNode(Tp, <<>>, 3, <<>>, NoCond) >>
PipeTemplates == {TplScenario, TplScenarioDeep, TplScenarioFlex, TplScenarioRoots}

PipeWords == {Wflex, Wpx}
PipeSeparators == {" ", NL}
PipeSelectors == { <<">", " ">> \o Tp, Tp, <<">", " ">> \o Tspan }
\* & { <word><sep><selector> { text-sm } }
PipeText(m) ==
    <<"&", " ", "{", " ">> \o m.word \o <<m.sep>> \o m.selector \o <<" ", "{", " ">> \o Wtextsm
    \o <<" ", "}", " ", "}">>
PipeMades ==
    { [word |-> w, sep |-> s, selector |-> c] : w \in PipeWords, s \in PipeSeparators, c \in PipeSelectors }

PipeInit ==
    /\ ResolverIdle
    /\ tpl \in PipeTemplates
    /\ sheet = <<>>
    /\ classMap = [el \in 1..Len(tpl) |-> <<>>]
    /\ applied = [el \in 1..Len(tpl) |-> tpl[el].classes]
    /\ mpc = <<"parse", 0>>
    /\ nth = [expr |-> <<>>, pos |-> 0, done |-> FALSE, result |-> FALSE]
    /\ made \in PipeMades
    /\ styleSrc = PipeText(made)
    /\ parsed = [done |-> FALSE, result |-> ParseResult(<<>>, <<>>, <<>>, <<>>)]

PipeNext == ParseStyleBlock \/ LoadRules \/ CollectRule \/ ApplyClasses

PipeSpec == PipeInit /\ [][PipeNext]_vars

(***************************************************************************)
(* C21  The end-to-end scenario: the rule `& { flex > p { text-sm } }`     *)
(* against the template roots [div[p, span]] gives the div the classes     *)
(* [flex], the p the classes [text-sm] and the span none.                  *)
(***************************************************************************)
\* the scenario's rule with `flex` and `> p` divided by the separator given
Scenario(sep) ==
    /\ made = [word |-> Wflex, sep |-> sep, selector |-> <<">", " ">> \o Tp]
    /\ mpc[1] = "done"

\* what the scenario promises on a template: flex on the roots, text-sm on the <p>
\* children of the roots, nothing elsewhere
ScenarioClasses(n) ==
    IF tpl[n].parent = 0 THEN <<Wflex>>
    ELSE IF tpl[tpl[n].parent].parent = 0 /\ tpl[n].tag = Tp THEN <<Wtextsm>>
    ELSE <<>>

\* as the claim writes the rule, on one line
C21_ScenarioOnOneLine ==
    (Scenario(" ") /\ tpl = TplScenario) => applied = <<<<Wflex>>, <<Wtextsm>>, <<>>>>

\* amended: with `flex` on a line of its own above `> p {`
C21_Scenario ==
    Scenario(NL) => \A n \in 1..Len(tpl) : applied[n] = ScenarioClasses(n)

C21_Witness ==
    Scenario(NL) /\ tpl = TplScenario /\ applied = <<<<Wflex>>, <<Wtextsm>>, <<>>>>

(***************************************************************************)
(* Inputs and specification of the class / selector decision: a rule whose *)
(* body is some class lines, then one line in front of a `{`               *)
(***************************************************************************)
MaxAbove == 2
\* bare words that are not on the list
OtherWords == { Tdiv, Tp, Wpx, Wflex \o <<"x">> }
\* texts with selector syntax
SelectorTexts ==
    { <<".", "a">>, <<"#", "a">>, <<"[", "a", "]">>, <<"a", ":", "b">>, <<":", "h">>,
      <<">", " ", "p">>, <<"+", " ", "p">>, <<"~", " ", "p">>, <<"*">>, <<"&">>,
      <<"a", ",", " ", "b">>, Wflex \o <<".", "a">>, Wflex \o <<" ", ">", " ", "p">>,
      Wflex \o <<" ", "p">>, Wflex \o <<" ", "*">>, <<"&", " ">> \o Wflex, <<"g", "r", "i", "d", ",", "p">> }
LastLines == AMBIGUOUS_TAG_CLASSES \cup OtherWords \cup SelectorTexts

\* the class lines above the last line: c1, then c2 k2
AboveText(n) ==
    CASE n = 0 -> <<>>
      [] n = 1 -> <<" ">> \o ClassWord(1) \o <<NL>>
      [] OTHER -> <<" ">> \o ClassWord(1) \o <<NL, " ">> \o ClassWord(2) \o <<" ">> \o SecondWord(2) \o <<NL>>
AboveClasses(n) ==
    CASE n = 0 -> <<>>
      [] n = 1 -> <<ClassWord(1)>>
      [] OTHER -> <<ClassWord(1), ClassWord(2), SecondWord(2)>>
\* & { <class lines> <last> { x9 } }
SplitText(m) ==
    <<"&", " ", "{", NL>> \o AboveText(m.above) \o <<" ">> \o m.last \o <<" ", "{", " ">> \o ClassWord(9)
    \o <<" ", "}", NL, "}">>

SplitInit ==
    /\ ResolverIdle /\ MatcherIdle
    /\ made \in { [above |-> n, last |-> t] : n \in 0..MaxAbove, t \in LastLines }
    /\ styleSrc = SplitText(made)
    /\ parsed = [done |-> FALSE, result |-> ParseResult(<<>>, <<>>, <<>>, <<>>)]

SplitNext == ParseStyleBlock

SplitSpec == SplitInit /\ [][SplitNext]_vars

(***************************************************************************)
(* C22  In a rule body the last line in front of a `{` is a class exactly  *)
(* when it is one bare word of the ambiguous tag/class list; every other   *)
(* bare word and every text with selector syntax is the selector of a      *)
(* child rule, and the class lines above it stay classes of the rule.      *)
(***************************************************************************)
TheRule == parsed.result.rules[1]

AtNames == { <<"@", "m", "e", "d", "i", "a">>, <<"@", "k", "e", "y", "f", "r", "a", "m", "e", "s">>,
             <<"@", "f", "o", "n", "t", "-", "f", "a", "c", "e">> }
\* how the header of the at-rule is written
AtHeaders == {"plain", "continued", "behind comment", "two lines"}
AtHeader(kind, name) ==
    CASE kind = "plain" -> name \o <<" ", "x">>
      [] kind = "continued" -> name \o <<" ", "x", ",", NL, " ", "y">>
      [] kind = "behind comment" -> <<"/", "*", "n", "*", "/", " ">> \o name \o <<" ", "x">>
      [] kind = "two lines" -> name \o <<" ", "x", NL, " ", "y">>
\* what the at-rule block holds
AtBodies == {"classes", "block"}
AtBody(kind) ==
    IF kind = "classes" THEN <<" ">> \o ClassWord(7) \o <<" ">>
    ELSE <<" ", "&", " ", "{", " ">> \o ClassWord(7) \o <<" ", "}", " ">>
AtBlock(m) == AtHeader(m.header, m.name) \o <<" ", "{">> \o AtBody(m.body) \o <<"}">>

\* the style block; `with` tells whether the at-rule block is written out
AtText(m, with) ==
    LET block == IF with THEN AtBlock(m) ELSE <<>> IN
    IF m.level = "top"
    THEN (IF m.before THEN <<"&", " ", "{", " ">> \o ClassWord(1) \o <<" ", "}", NL>> ELSE <<>>)
         \o block \o <<NL>>
         \o (IF m.after THEN <<"p", " ", "{", " ">> \o ClassWord(3) \o <<" ", "}", NL>> ELSE <<>>)
    ELSE <<"&", " ", "{", NL>>
         \o (IF m.before THEN <<" ">> \o ClassWord(1) \o <<NL>> ELSE <<>>)
         \o <<" ">> \o block \o <<NL>>
         \o (IF m.after THEN <<" ">> \o ClassWord(3) \o <<NL>> ELSE <<>>)
         \o <<"}", NL>>

AtMades ==
    { [level |-> l, header |-> h, name |-> n, body |-> b, before |-> x, after |-> y] :
        l \in {"top", "nested"}, h \in AtHeaders, n \in AtNames, b \in AtBodies,
        x \in BOOLEAN, y \in BOOLEAN }

AtInit ==
    /\ ResolverIdle /\ MatcherIdle
    /\ made \in AtMades
    /\ styleSrc = AtText(made, TRUE)
    /\ parsed = [done |-> FALSE, result |-> ParseResult(<<>>, <<>>, <<>>, <<>>)]

AtNext == ParseStyleBlock

AtSpec == AtInit /\ [][AtNext]_vars

(***************************************************************************)
(* C23  An unsupported at-rule block, at top level or nested in a rule     *)
(* body, produces one `is not supported` warning and no rule; its span up  *)
(* to the matching close brace is skipped and everything before and after  *)
(* it is parsed as it would be with the at-rule removed.                   *)
(***************************************************************************)
\* the parse of the same block without the at-rule
Without == parseStyleBlock(AtText(made, FALSE))

AtRuleSkipped ==
    /\ parsed.result.rules = Without.rules
    /\ parsed.result.exports = Without.exports
    /\ Len(parsed.result.warned) = 1
    /\ parsed.result.warned[1].kind = "not supported"

C23_AtRuleSkipped == parsed.done => AtRuleSkipped

(***************************************************************************)
(* Inputs and specification of the diagnostics: a style block with one     *)
(* offending construct and two leads in front of it                        *)
(***************************************************************************)
DiagKinds == {"import", "use", "at-rule", "nested at-rule", "unclosed"}
DiagNested(kind) == kind \in {"use", "nested at-rule"}
\* what stands in front of the construct: nothing, a blank line, a line (a class line in
\* a rule body, a rule at top level), a comment on one line, a comment over two lines
LeadKinds == {"none", "blank", "line", "comment line", "long comment"}
LeadText(lead, nested) ==
    CASE lead = "none" -> <<>>
      [] lead = "blank" -> <<NL>>
      [] lead = "line" -> IF nested THEN <<" ">> \o ClassWord(1) \o <<NL>>
                          ELSE <<"p", " ", "{", " ">> \o ClassWord(3) \o <<" ", "}", NL>>
      [] lead = "comment line" -> <<" ", "/", "*", "n", "*", "/", NL>>
      [] lead = "long comment" -> <<" ", "/", "*", "n", NL, "m", "*", "/", NL>>
\* the text in front of the construct
DiagPrefix(m) ==
    (IF DiagNested(m.kind) THEN <<"&", " ", "{", NL>> ELSE <<>>)
    \o LeadText(m.lead1, DiagNested(m.kind)) \o LeadText(m.lead2, DiagNested(m.kind))
    \o (IF DiagNested(m.kind) THEN <<" ">> ELSE <<>>)
    \o (IF m.kind = "unclosed" THEN <<"&", " ">> ELSE <<>>)
\* the construct and what follows it
DiagRest(m) ==
    CASE m.kind = "import" -> <<"@", "i", "m", "p", "o", "r", "t", " ", "b", NL, "&", " ", "{", " ">>
                              \o ClassWord(1) \o <<" ", "}", NL>>
      [] m.kind = "use" -> <<"@", "u", "s", "e", NL, "}", NL>>
      [] m.kind = "at-rule" -> <<"@", "m", "e", "d", "i", "a", " ", "x", " ", "{", " ">> \o ClassWord(7)
                               \o <<" ", "}", NL>>
      [] m.kind = "nested at-rule" -> <<"@", "m", "e", "d", "i", "a", " ", "x", " ", "{", " ">>
                                      \o ClassWord(7) \o <<" ", "}", NL, "}", NL>>
      [] m.kind = "unclosed" -> <<"{", " ">> \o ClassWord(1) \o <<NL>>
DiagText(m) == DiagPrefix(m) \o DiagRest(m)

DiagMades ==
    { [kind |-> k, lead1 |-> a, lead2 |-> b] : k \in DiagKinds, a \in LeadKinds, b \in LeadKinds }

DiagInit ==
    /\ ResolverIdle /\ MatcherIdle
    /\ made \in DiagMades
    /\ styleSrc = DiagText(made)
    /\ parsed = [done |-> FALSE, result |-> ParseResult(<<>>, <<>>, <<>>, <<>>)]

DiagNext == ParseStyleBlock

DiagSpec == DiagInit /\ [][DiagNext]_vars

(***************************************************************************)
(* C24  Every diagnostic of the parser (malformed @import, malformed @use, *)
(* unsupported at-rule, unclosed brace) reports the 1-based line on which  *)
(* the offending construct stands: 1 plus the number of line breaks in     *)
(* front of it, also when comments or class lines stand in front of it in  *)
(* the same rule body.                                                     *)
(***************************************************************************)
\* the line of the construct: one more than the line breaks of the text in front of it
ConstructLine == 1 + Cardinality(lineBreaks(DiagPrefix(made)))
DiagnosticOf(kind) ==
    CASE kind = "import" -> "Malformed @import"
      [] kind = "use" -> "Malformed @use"
      [] kind = "unclosed" -> "Unclosed"
      [] OTHER -> "not supported"

LineReported ==
    parsed.result.warned = <<ParserWarning(DiagnosticOf(made.kind), ConstructLine)>>

C24_DiagnosticLine == parsed.done => LineReported

(***************************************************************************)
(* Inputs and specification of the exports of a library file: the file L   *)
(* in several shapes, the file T it builds on, and consumers of both       *)
(***************************************************************************)
\* the file T: one export with a child rule, in two versions
BaseV1 == File("sfc", <<Block("t", <<Cls("T1"), Decl("t1;")>>, <<Block(".g", <<Cls("G1")>>, <<>>)>>)>>)
BaseV2 == File("sfc", <<Block("t", <<Cls("T2"), Decl("t2;")>>, <<Block(".g", <<Cls("G2")>>, <<>>)>>)>>)
BaseVersions == {BaseV1, BaseV2}

\* a library file: its exports and the @import directives of its style block
Library(exports, imports) == [kind |-> "sfc", exports |-> exports, imports |-> imports]
\* x before y, which uses it in its body and in a child rule
LibOrdered ==
    Library(<<Block("x", <<Cls("X"), Decl("x;")>>, <<Block(".h", <<Cls("H")>>, <<>>)>>),
              Block("y", <<Cls("Y"), Use("x")>>, <<Block(".k", <<Cls("K"), Use("x")>>, <<>>)>>)>>, <<>>)
\* y uses x uses w, written in this order
LibReversed ==
    Library(<<Block("y", <<Cls("Y"), Use("x")>>, <<>>),
              Block("x", <<Cls("X"), Use("w")>>, <<>>),
              Block("w", <<Cls("W"), Decl("w;")>>, <<>>)>>, <<>>)
\* y uses t, which the file imports from T
LibImporting ==
    Library(<<Block("x", <<Cls("X")>>, <<>>),
              Block("y", <<Cls("Y"), Use("t")>>, <<>>)>>, <<Import(<<"t">>, "T")>>)
\* y uses t from T
LibQualified ==
    Library(<<Block("x", <<Cls("X")>>, <<>>),
              Block("y", <<Cls("Y"), UseFrom("t", "T")>>, <<>>)>>, <<>>)
\* y is defined twice
LibDuplicate ==
    Library(<<Block("x", <<Cls("X")>>, <<>>),
              Block("y", <<Cls("Y"), Use("x")>>, <<>>),
              Block("y", <<Cls("Y2")>>, <<>>)>>, <<>>)
Libraries == {LibOrdered, LibReversed, LibImporting, LibQualified, LibDuplicate}

LibDisk(lib, base) ==
    [p \in Paths |->
        CASE p = "L" -> lib
          [] p = "T" -> base
          [] p = "N" -> File("missing", <<>>)
          [] OTHER -> File("plain", <<>>)]

\* the consumers: y by @import, y by a qualified @use, x and y with a missing and a
\* plain file, t straight from T
ImportsBoth ==
    Unit(ConsumerPath,
         <<Block("&", <<Cls("R"), Use("x"), UseFrom("q", "N"), UseFrom("p", "A")>>,
                 <<Block(".m", <<Cls("M"), Use("y")>>, <<>>)>>)>>,
         <<>>, <<Import(<<"x", "y">>, "L")>>)
UseBase ==
    Unit(OtherConsumerPath, <<Block("&", <<Cls("R"), UseFrom("t", "T")>>, <<>>)>>, <<>>, <<>>)
LibConsumers == {UseLib, UseLibDirect, ImportsBoth, UseBase}

LibInit ==
    /\ MatcherIdle /\ ParserIdle
    /\ heap = <<>> /\ stack = <<>> /\ sets = <<>> /\ warnings = <<>>
    /\ files \in {LibDisk(lib, BaseV1) : lib \in Libraries}
    /\ exportsCache = [s \in StateIds |-> [p \in Paths |-> NotCached]]
    /\ importDeps = [s \in StateIds |-> [u \in ConsumerPaths |-> {}]]
    /\ phase = "idle"
    /\ ret = <<>>
    /\ unit = Unit(ConsumerPath, <<>>, <<>>, <<>>)
    /\ root = [rules |-> 0, exports |-> <<>>]
    /\ cur = "s1"
    /\ pass = 1

LibTransform == \E u \in LibConsumers : forwardTransform(u, "s1")

\* transforms of the consumers, one after the other, the files fixed
ExportsNext == LibTransform \/ Resolve \/ Return

ExportsSpec == LibInit /\ [][ExportsNext]_vars

(***************************************************************************)
(* C25  Every export block returned for another file is fully resolved     *)
(* before the importer sees it: its `uses` are empty and it holds the      *)
(* classes, declarations and children of every export it @uses, defined    *)
(* in the same file or brought into that file by its @import directives.   *)
(***************************************************************************)
ImportsOf(file) == IF "imports" \in DOMAIN file THEN file.imports ELSE <<>>
Exports(path, name) == {k \in 1..Len(files[path].exports) : files[path].exports[k].sel = name}
\* the definition of `name` in the file at path: the later one of two
SourceExport(path, name) ==
    files[path].exports[CHOOSE k \in Exports(path, name) : \A j \in Exports(path, name) : j <= k]
\* the file that holds the export a @use in the file at path refers to; "" when none
Provider(path, use) ==
    LET imports == ImportsOf(files[path])
        bringing == {i \in 1..Len(imports) : use.name \in Range(imports[i].names)}
    IN IF use.from # NoFrom THEN use.from
       ELSE IF Exports(path, use.name) # {} THEN path
       ELSE IF bringing # {} THEN imports[CHOOSE i \in bringing : TRUE].from
       ELSE ""

\* what a block of the file at path holds once every @use is followed
RECURSIVE Composed(_, _, _)
Composed(path, block, fuel) ==
    LET uses == BodyUses(block.body)
        used(u) ==
            LET p == Provider(path, uses[u]) IN
            IF fuel = 0 \/ p = "" \/ Exports(p, uses[u].name) = {}
            THEN [classes |-> {}, declarations |-> {}, children |-> {}]
            ELSE Composed(p, SourceExport(p, uses[u].name), fuel - 1)
    IN [classes |-> Range(BodyClasses(block.body)) \cup UNION {used(u).classes : u \in DOMAIN uses},
        declarations |-> Range(BodyDeclarations(block.body))
                         \cup UNION {used(u).declarations : u \in DOMAIN uses},
        children |-> {block.children[k].sel : k \in DOMAIN block.children}
                     \cup UNION {used(u).children : u \in DOMAIN uses}]

\* the k-th cached export of L against the k-th export of its source
FullyResolved(id, block) ==
    /\ \A n \in Closure(heap, {id}, Len(heap)) : heap[n].uses = <<>>
    /\ Composed("L", block, 3).classes \subseteq Range(heap[id].classes)
    /\ Composed("L", block, 3).declarations \subseteq Range(heap[id].declarations)
    /\ Composed("L", block, 3).children \subseteq {heap[c].sel : c \in Range(heap[id].children)}

LibraryCache == exportsCache["s1"]["L"]

C25_ExportsResolved ==
    LibraryCache # NotCached =>
        \A k \in 1..Len(LibraryCache) : FullyResolved(LibraryCache[k], files["L"].exports[k])

(***************************************************************************)
(* The template tree (parser/template-tree.ts): buildTemplateTree walks    *)
(* the template AST, keeps the elements, hoists the children of <template> *)
(* and of the transparent built-in components, and tags the branches of    *)
(* v-if / v-else-if / v-else chains                                        *)
(***************************************************************************)
ELEMENT_NODE == 1
TAG_TYPE_COMPONENT == 1
TAG_TYPE_SLOT == 2
TAG_TYPE_TEMPLATE == 3
VUE_TRANSPARENT_COMPONENTS ==
    {"Transition", "transition", "KeepAlive", "keep-alive", "Suspense", "suspense",
     "Teleport", "teleport"}

\* a node of the template AST; props holds the names of its directives
AstNode(type, tagType, tag, props, children) ==
    [type |-> type, tagType |-> tagType, tag |-> tag, props |-> props, children |-> children]

\* "if", "else-if", "else" or "" for null
getConditionalDirective(node) ==
    LET conds == SelectSeq(node.props, LAMBDA name : name \in {"if", "else-if", "else"})
    IN IF conds = <<>> THEN "" ELSE conds[1]

hasVHtmlDirective(node) == "html" \in Range(node.props)

\* hoisted children that have no conditional of their own get the wrapper's
propagate(nodes, hoisted, conditional) ==
    [n \in DOMAIN nodes |->
        IF n \in Range(hoisted) /\ conditional # NoCond /\ nodes[n].conditional = NoCond
        THEN [nodes[n] EXCEPT !.conditional = conditional]
        ELSE nodes[n]]

\* the loop of extractElements from the k-th child on; acc holds the nodes built so far,
\* chainCounter.value, result, currentChainId (<<>> for undefined) and currentBranchIdx
RECURSIVE extractFrom(_, _, _, _)
RECURSIVE buildNode(_, _, _, _)
extractElements(children, parent, nodes, counter) ==
    extractFrom(children, 1, parent,
                [nodes |-> nodes, counter |-> counter, result |-> <<>>,
                 currentChainId |-> <<>>, currentBranchIdx |-> 0])

extractFrom(children, k, parent, acc) ==
    IF k > Len(children) THEN acc
    ELSE
    LET child == children[k] IN
    IF child.type # ELEMENT_NODE \/ child.tagType = TAG_TYPE_SLOT
    THEN extractFrom(children, k + 1, parent, acc)
    ELSE
    LET condDirective == getConditionalDirective(child)
        currentChainId ==
            IF condDirective = "if" THEN <<acc.counter>>
            ELSE IF condDirective \in {"else-if", "else"} THEN acc.currentChainId
            ELSE <<>>
        currentBranchIdx ==
            IF condDirective = "if" THEN 0
            ELSE IF condDirective \in {"else-if", "else"} THEN acc.currentBranchIdx + 1
            ELSE acc.currentBranchIdx
        counter == IF condDirective = "if" THEN acc.counter + 1 ELSE acc.counter
        conditional ==
            IF currentChainId # <<>> THEN Conditional(currentChainId[1], currentBranchIdx)
            ELSE NoCond
    IN IF \/ child.tagType = TAG_TYPE_COMPONENT /\ child.tag \in VUE_TRANSPARENT_COMPONENTS
          \/ child.tagType = TAG_TYPE_TEMPLATE
       THEN LET hoisted == extractElements(child.children, parent, acc.nodes, counter)
            IN extractFrom(children, k + 1, parent,
                           [nodes |-> propagate(hoisted.nodes, hoisted.result, conditional),
                            counter |-> hoisted.counter,
                            result |-> acc.result \o hoisted.result,
                            currentChainId |-> currentChainId,
                            currentBranchIdx |-> currentBranchIdx])
       ELSE LET node == buildNode(child, parent, acc.nodes, counter)
            IN extractFrom(children, k + 1, parent,
                           [nodes |-> [node.nodes EXCEPT ![node.id].conditional = conditional],
                            counter |-> node.counter,
                            result |-> Append(acc.result, node.id),
                            currentChainId |-> currentChainId,
                            currentBranchIdx |-> currentBranchIdx])

buildNode(node, parent, nodes, counter) ==
    LET id == Len(nodes) + 1
        el == TemplateNode(node.tag, <<>>, parent, <<>>, NoCond)
    IN IF hasVHtmlDirective(node)
       THEN [nodes |-> Append(nodes, el), counter |-> counter, id |-> id]
       ELSE LET kids == extractElements(node.children, id, Append(nodes, el), counter)
            IN [nodes |-> [kids.nodes EXCEPT ![id].children = kids.result],
                counter |-> kids.counter, id |-> id]

buildTemplateTree(ast) == extractElements(ast.children, 0, <<>>, 0).nodes

\* forwardTransform building the template tree before phase 1
BuildTemplateTree ==
    /\ mpc = <<"build", 0>>
    /\ tpl' = buildTemplateTree(made)
    /\ classMap' = [el \in 1..Len(tpl') |-> <<>>]
    /\ applied' = [el \in 1..Len(tpl') |-> tpl'[el].classes]
    /\ mpc' = <<"collect", 1>>
    /\ UNCHANGED <<sheet, nth>>
    /\ UNCHANGED <<resolverVars, parseVars>>

(***************************************************************************)
(* Inputs and specification of the template tree: one root element whose   *)
(* children hold chains, wrappers and slots; every element has its own tag *)
(***************************************************************************)
Element(tag, props, children) == AstNode(ELEMENT_NODE, 0, tag, props, children)
Wrapper(tag, props, children) == AstNode(ELEMENT_NODE, TAG_TYPE_TEMPLATE, tag, props, children)
Component(tag, props, children) == AstNode(ELEMENT_NODE, TAG_TYPE_COMPONENT, tag, props, children)
SlotOutlet(tag, props) == AstNode(ELEMENT_NODE, TAG_TYPE_SLOT, tag, props, <<>>)
Whitespace == AstNode(2, 0, "", <<>>, <<>>)
If == <<"if">>
ElseIf == <<"else-if">>
Else == <<"else">>

AstChildren ==
    { \* <a v-if/> <b v-else-if/> <c v-else/>
      <<Element("a", If, <<>>), Whitespace, Element("b", ElseIf, <<>>), Element("c", Else, <<>>)>>,
      \* <a v-if/> <b/> <d v-if/> <c v-else/>
      <<Element("a", If, <<>>), Element("b", <<>>, <<>>), Element("d", If, <<>>),
        Element("c", Else, <<>>)>>,
      \* <template v-if><a/><b/></template> <template v-else><c/></template> <d/>
      <<Wrapper("t1", If, <<Element("a", <<>>, <<>>), Element("b", <<>>, <<>>)>>),
        Wrapper("t2", Else, <<Element("c", <<>>, <<>>)>>), Element("d", <<>>, <<>>)>>,
      \* <template v-if><a v-if/><b v-else/></template> <c v-else/>
      <<Wrapper("t1", If, <<Element("a", If, <<>>), Element("b", Else, <<>>)>>),
        Element("c", Else, <<>>)>>,
      \* <a v-if/> <template v-else><b v-if/><c/></template>
      <<Element("a", If, <<>>),
        Wrapper("t1", Else, <<Element("b", If, <<>>), Element("c", <<>>, <<>>)>>)>>,
      \* <Transition v-if><a v-if/></Transition> <c v-else/>
      <<Component("Transition", If, <<Element("a", If, <<>>)>>), Element("c", Else, <<>>)>>,
      \* <KeepAlive><a v-if/><c v-else/></KeepAlive> <b/>
      <<Component("KeepAlive", <<>>, <<Element("a", If, <<>>), Element("c", Else, <<>>)>>),
        Element("b", <<>>, <<>>)>>,
      \* <a v-if/> <slot v-if/> <c v-else/>
      <<Element("a", If, <<>>), SlotOutlet("s", If), Element("c", Else, <<>>)>>,
      \* <a v-if/> <slot v-else/> <c/>
      <<Element("a", If, <<>>), SlotOutlet("s", Else), Element("c", <<>>, <<>>)>>,
      \* <Card v-if><b v-if/><d v-else/></Card> <c v-else v-html><a/></c>
      <<Component("Card", If, <<Element("b", If, <<>>), Element("d", Else, <<>>)>>),
        Element("c", <<"else", "html">>, <<Element("a", <<>>, <<>>)>>)>> }

Asts == { AstNode(0, 0, "", <<>>, <<Element("r", <<>>, kids)>>) : kids \in AstChildren }

TreeSheets ==
    { <<Rule1(SiblingSelector(x, c, y), <<"M">>)>> : x \in {"a", "b"}, c \in {"+", "~"}, y \in {"c", "d"} }

TreeInit ==
    /\ ResolverIdle
    /\ made \in Asts
    /\ styleSrc = <<>>
    /\ parsed = [done |-> FALSE, body |-> Body(<<>>, <<>>, <<>>, <<>>)]
    /\ tpl = <<>>
    /\ sheet \in TreeSheets
    /\ classMap = <<>>
    /\ applied = <<>>
    /\ mpc = <<"build", 0>>
    /\ nth = [expr |-> <<>>, pos |-> 0, done |-> FALSE, result |-> FALSE]

TreeNext == BuildTemplateTree \/ CollectRule \/ ApplyClasses

TreeSpec == TreeInit /\ [][TreeNext]_vars

(***************************************************************************)
(* C26  Two nodes of one parent that come from different branches of the   *)
(* same v-if / v-else-if / v-else chain are tagged as conditional          *)
(* alternatives (same chainId, different branchIdx), also when they were   *)
(* hoisted out of a wrapper on such a branch and carry a chain of their    *)
(* own; and no two nodes are tagged so that do not.                        *)
(***************************************************************************)
\* the elements of a list of AST nodes
ElementsOf(children) == {k \in DOMAIN children : children[k].type = ELEMENT_NODE}
\* the chain the k-th node of the list belongs to: <<head, branch>>, or <<>>
ChainOf(children, k) ==
    LET heads == {h \in ElementsOf(children) :
                    /\ h <= k
                    /\ getConditionalDirective(children[h]) = "if"
                    /\ \A j \in ElementsOf(children) :
                          h < j /\ j <= k =>
                              getConditionalDirective(children[j]) \in {"else-if", "else"}}
    IN IF heads = {} THEN <<>>
       ELSE LET h == CHOOSE h \in heads : TRUE
            IN <<children[h].tag, Cardinality({j \in ElementsOf(children) : h < j /\ j <= k})>>

IsHoisted(node) ==
    \/ node.tagType = TAG_TYPE_TEMPLATE
    \/ node.tagType = TAG_TYPE_COMPONENT /\ node.tag \in VUE_TRANSPARENT_COMPONENTS

\* the rendered elements of a list with the branches each one stands on
RECURSIVE Rendered(_, _)
Rendered(children, branches) ==
    UNION { LET node == children[k]
                on == IF ChainOf(children, k) = <<>> THEN branches
                      ELSE branches \cup {ChainOf(children, k)}
            IN IF node.tagType = TAG_TYPE_SLOT THEN {}
               ELSE IF IsHoisted(node) THEN Rendered(node.children, on)
               ELSE {[tag |-> node.tag, on |-> on]}
            : k \in ElementsOf(children) }

\* different branches of one chain
Exclusive(a, b) == \E x \in a.on, y \in b.on : x[1] = y[1] /\ x[2] # y[2]

TaggedAlternatives(n, m) ==
    /\ tpl[n].conditional # NoCond /\ tpl[m].conditional # NoCond
    /\ tpl[n].conditional[1] = tpl[m].conditional[1]
    /\ tpl[n].conditional[2] # tpl[m].conditional[2]

RootKids == made.children[1].children

C26_ChainsTagged ==
    tpl # <<>> =>
        \A a \in Rendered(RootKids, {}), b \in Rendered(RootKids, {}) :
            \A n \in Range(tpl[1].children), m \in Range(tpl[1].children) :
                tpl[n].tag = a.tag /\ tpl[m].tag = b.tag =>
                    (Exclusive(a, b) <=> TaggedAlternatives(n, m))

(***************************************************************************)
(* Specification of a development session: the consumers are transformed,  *)
(* the file T is rewritten and the plugin's handleHotUpdate runs for T or  *)
(* for the library L                                                       *)
(***************************************************************************)
RewriteBase == \E content \in BaseVersions : WriteFile("T", content)
HotUpdate == \E file \in {"T", "L"} : handleHotUpdate(file, "s1")

HotNext == LibTransform \/ Resolve \/ Return \/ RewriteBase \/ HotUpdate

HotSpec == LibInit /\ [][HotNext]_vars

(***************************************************************************)
(* C27  After handleHotUpdate has run for a changed file F, no entry of    *)
(* the plugin's exportsCache holds content inlined from F's previous       *)
(* version, and every file whose resolved rules depend on F, directly or   *)
(* through the pre-resolved exports of an intermediate file that uses      *)
(* `@use ... from F`, is among the invalidated dependents.                 *)
(***************************************************************************)
\* handleHotUpdate has just returned
HotUpdated == phase = "done" /\ root.rules = 0
Updated == unit.path
Invalidated == sets[1]

RECURSIVE WrittenClasses(_)
\* the classes written in a list of source blocks
WrittenClasses(blocks) ==
    UNION { Range(BodyClasses(blocks[k].body)) \cup WrittenClasses(blocks[k].children)
            : k \in DOMAIN blocks }
\* the classes only an earlier version of T holds
PreviousClasses ==
    UNION {WrittenClasses(v.exports) : v \in BaseVersions \ {files["T"]}}
    \ WrittenClasses(files["T"].exports)

CachedObjects(s) ==
    Closure(heap,
            UNION {IF exportsCache[s][p] = NotCached THEN {} ELSE Range(exportsCache[s][p])
                   : p \in Paths},
            Len(heap))

NoStaleContent(s) == \A n \in CachedObjects(s) : Range(heap[n].classes) \cap PreviousClasses = {}

RECURSIVE UsesFrom(_, _)
\* some block of the list has `@use ... from path`
UsesFrom(blocks, path) ==
    \E k \in DOMAIN blocks :
        \/ \E u \in Range(BodyUses(blocks[k].body)) : u.from = path
        \/ UsesFrom(blocks[k].children, path)

\* the rules the consumer was last resolved to depend on the file at path
DependsOn(consumer, path, s) ==
    \/ path \in importDeps[s][consumer]
    \/ \E via \in importDeps[s][consumer] : UsesFrom(files[via].exports, path)

AllInvalidated(s) ==
    \A consumer \in ConsumerPaths : DependsOn(consumer, Updated, s) => consumer \in Invalidated

C27_HotUpdate ==
    HotUpdated /\ Updated = "T" => NoStaleContent(cur) /\ AllInvalidated(cur)

(***************************************************************************)
(* Inputs and specification of the two readings of a sibling combinator:   *)
(* one rule walks forward from the children matching X, the other tests    *)
(* the children matching Y backwards through :is()                         *)
(***************************************************************************)
\* div { > x c y { fw }  > y:is(x c y) { bw } }
BothWays(x, c, y) ==
    << MatchRule(<< <<SelTag("div")>> >>, <<>>,
                 << Rule1(<<Combinator(">")>> \o SiblingSelector(x, c, y), <<"fw">>),
                    Rule1(<<Combinator(">"), SelTag(y),
                            PseudoFn(":is", <<SiblingSelector(x, c, y)>>)>>, <<"bw">>) >>) >>
BothWaysSheets == { BothWays(x, c, y) : x \in KidTags, c \in {"+", "~"}, y \in KidTags }

BothWaysInit ==
    /\ ResolverIdle /\ ParserIdle
    /\ tpl \in Families
    /\ sheet \in BothWaysSheets
    /\ classMap = [el \in 1..Len(tpl) |-> <<>>]
    /\ applied = [el \in 1..Len(tpl) |-> tpl[el].classes]
    /\ mpc = <<"collect", 1>>
    /\ nth = [expr |-> <<>>, pos |-> 0, done |-> FALSE, result |-> FALSE]

BothWaysSpec == BothWaysInit /\ [][MatchNext]_vars

(***************************************************************************)
(* C28  Forward and backward evaluation of the sibling combinators agree:  *)
(* under one parent, `> X + Y` (`> X ~ Y`) selects a child exactly when    *)
(* `> Y:is(X + Y)` (`> Y:is(X ~ Y)`) selects it, conditional branches      *)
(* among the children included.                                            *)
(***************************************************************************)
Collected == mpc[1] \in {"apply", "done"}

C28_BothWaysAgree ==
    Collected => \A el \in 1..Len(tpl) : includes(classMap[el], "fw") <=> includes(classMap[el], "bw")

(***************************************************************************)
(* Inputs and specification of fragment templates: one to three roots,     *)
(* top-level rules with a sibling combinator or a child-position pseudo    *)
(***************************************************************************)
RootTags == {"header", "main", "footer"}
\* <header/><main/>... : every node is a root
Fragment(tags) == [i \in 1..Len(tags) |-> TemplateNode(tags[i], <<>>, 0, <<>>, NoCond)]
Fragments == UNION { {Fragment(tags) : tags \in [1..n -> RootTags]} : n \in 1..3 }

PositionPseudos ==
    { Pseudo(":first-child"), Pseudo(":last-child"), Pseudo(":only-child"),
      PseudoNth(":nth-child", <<"2">>) }
RootSheets ==
    { <<Rule1(SiblingSelector(x, c, y), <<"M">>)>> : x \in RootTags, c \in {"+", "~"}, y \in RootTags }
    \cup { <<Rule1(<<SelTag(x), ps>>, <<"M">>)>> : x \in RootTags, ps \in PositionPseudos }

RootsInit ==
    /\ ResolverIdle /\ ParserIdle
    /\ tpl \in Fragments
    /\ sheet \in RootSheets
    /\ classMap = [el \in 1..Len(tpl) |-> <<>>]
    /\ applied = [el \in 1..Len(tpl) |-> tpl[el].classes]
    /\ mpc = <<"collect", 1>>
    /\ nth = [expr |-> <<>>, pos |-> 0, done |-> FALSE, result |-> FALSE]

RootsSpec == RootsInit /\ [][MatchNext]_vars

(***************************************************************************)
(* C29  The roots of a fragment template are siblings of one another: a    *)
(* top-level rule `x + y` or `x ~ y` matches the following root, and       *)
(* :first-child, :last-child, :only-child and :nth-child on a root are     *)
(* evaluated against the list of all roots.                                *)
(***************************************************************************)
TopSelector == sheet[1].selector[1]
\* what the top-level rule selects when the roots are one list of siblings
AmongRoots(el) ==
    LET i == indexOf(templateNodes, el)
        last == TopSelector[Len(TopSelector)]
    IN IF Len(TopSelector) = 3
       THEN /\ tpl[el].tag = last.value
            /\ TopSelector[2].value = "+" =>
                   i > 1 /\ tpl[templateNodes[i - 1]].tag = TopSelector[1].value
            /\ TopSelector[2].value = "~" =>
                   \E j \in 1..(i - 1) : tpl[templateNodes[j]].tag = TopSelector[1].value
       ELSE /\ tpl[el].tag = TopSelector[1].value
            /\ CASE last.value = ":first-child" -> i = 1
                 [] last.value = ":last-child" -> i = Len(templateNodes)
                 [] last.value = ":only-child" -> Len(templateNodes) = 1
                 [] OTHER -> i = 2

C29_RootsAreSiblings ==
    Collected =>
        \A el \in Range(templateNodes) : includes(classMap[el], "M") <=> AmongRoots(el)

(***************************************************************************)
(* Inputs and specification of nested rules that start with a sibling      *)
(* combinator: x { e  + y { L } } and x { e  ~ y { L } }                   *)
(***************************************************************************)
Leading(x, c, y) ==
    << MatchRule(<< <<SelTag(x)>> >>, <<"e">>, << Rule1(<<Combinator(c), SelTag(y)>>, <<"L">>) >>) >>
LeadingSheets == { Leading(x, c, y) : x \in KidTags, c \in {"+", "~"}, y \in KidTags }

LeadingInit ==
    /\ ResolverIdle /\ ParserIdle
    /\ tpl \in Families
    /\ sheet \in LeadingSheets
    /\ classMap = [el \in 1..Len(tpl) |-> <<>>]
    /\ applied = [el \in 1..Len(tpl) |-> tpl[el].classes]
    /\ mpc = <<"collect", 1>>
    /\ nth = [expr |-> <<>>, pos |-> 0, done |-> FALSE, result |-> FALSE]

LeadingSpec == LeadingInit /\ [][MatchNext]_vars

(***************************************************************************)
(* C30  A nested rule whose selector starts with a sibling combinator is   *)
(* relative to the element e the enclosing rule matched: `+ X` selects the *)
(* first runtime sibling after e when it matches X, `~ X` every later      *)
(* runtime sibling of e that matches X.                                    *)
(***************************************************************************)
\* the later siblings of e that can be rendered together with e
LaterSiblings(e) ==
    IF tpl[e].parent = 0 THEN <<>>
    ELSE LET siblings == tpl[tpl[e].parent].children
             at == CHOOSE i \in 1..Len(siblings) : siblings[i] = e
         IN SelectSeq(SubSeq(siblings, at + 1, Len(siblings)),
                      LAMBDA s : \/ tpl[e].conditional = NoCond \/ tpl[s].conditional = NoCond
                                 \/ tpl[e].conditional[1] # tpl[s].conditional[1]
                                 \/ tpl[e].conditional[2] = tpl[s].conditional[2])

Enclosing == sheet[1]
LeadingSelector == Enclosing.children[1].selector[1]

RelativeTo(e, el) ==
    /\ tpl[el].tag = LeadingSelector[2].value
    /\ IF LeadingSelector[1].value = "+"
       THEN LaterSiblings(e) # <<>> /\ Head(LaterSiblings(e)) = el
       ELSE el \in Range(LaterSiblings(e))

C30_LeadingSibling ==
    Collected =>
        \A el \in 1..Len(tpl) :
            includes(classMap[el], "L")
            <=> \E e \in 1..Len(tpl) : includes(classMap[e], "e") /\ RelativeTo(e, el)

====
